---- MODULE Spec2Model ----
(***************************************************************************)
(* NexMind (Draftnexx/nexmind): the knowledge-graph builder, the           *)
(* similarity engine, the suggestion store and the automation engine.      *)
(*                                                                         *)
(* Strings.  A string whose characters matter (a label, a note's content,  *)
(* an identifier built by a template) is the sequence of its characters or *)
(* of its fixed pieces: <<"note", "_">> \o id is `note_${id}`.             *)
(*                                                                         *)
(* Real numbers.  A similarity or an edge strength x in [-1,1] is held as  *)
(* the reduced fraction <<n, d>> (d > 0) with n/d = sgn(x) * x^2.  The map *)
(* x |-> sgn(x) * x^2 is strictly increasing, so order and equality of the *)
(* encoded values are those of the numbers themselves, and no square root  *)
(* is ever rounded.  Confidences are integers in hundredths.               *)
(*                                                                         *)
(* Time.  An instant is a whole number of hours; Date.now() reads the      *)
(* clock to the hour, so two reads with no clock step between them return  *)
(* the same value, as two reads in the same millisecond do.                *)
(***************************************************************************)
EXTENDS Integers, Sequences, FiniteSets, TLC

VARIABLES
    graph,      \* the KnowledgeGraph object being mutated: [nodes, edges]
    coll,       \* the note collection at hand (the note store's array)
    ops,        \* number of operations performed (bounded)
    inserted,   \* history: <<id, strength>> of every edge handed to addEdge
    lastOp,     \* history: [op, threw] of the last step (and its argument)
    store,      \* the suggestion store's array (key nexmind_ai_suggestions)
    clock,      \* the wall clock, in hours
    out,        \* history: the last generator run, [notes, graph, now, threw, list]
    calls,      \* the calls in flight: each one's position and local variables
    remote      \* the remote side: what it has received and what it holds

vars == <<graph, coll, ops, inserted, lastOp, store, clock, out, calls, remote>>

-----------------------------------------------------------------------------
(* Numbers                                                                 *)

Abs(x) == IF x < 0 THEN -x ELSE x

RECURSIVE Gcd(_, _)
Gcd(a, b) == IF b = 0 THEN a ELSE Gcd(b, a % b)

\* the reduced fraction n/d, d > 0
Frac(n, d) == LET g == Gcd(Abs(n), d) IN <<n \div g, d \div g>>

\* the number h/100 (h >= 0) in the encoding: (h/100)^2
Hundredths(h) == Frac(h * h, 10000)

\* a >= b and a > b on encoded numbers
GE(a, b) == a[1] * b[2] >= b[1] * a[2]
GT(a, b) == a[1] * b[2] > b[1] * a[2]


-----------------------------------------------------------------------------
(* Optional values: <<>> is undefined, <<x>> is x                          *)

None == <<>>
Some(x) == <<x>>

-----------------------------------------------------------------------------
(* Similarity engine (services/embeddings.ts)                              *)

RECURSIVE Dot(_, _)
\* sum of v1[i] * v2[i] over the common indices
Dot(v1, v2) ==
    IF v1 = <<>> \/ v2 = <<>> THEN 0
    ELSE Head(v1) * Head(v2) + Dot(Tail(v1), Tail(v2))

\* the value calculateCosineSimilarity returns; "throw" when it raises
SimThrow == <<0, 0>>

\* mutant: vectors of different lengths are compared on their common indices
CosineOfCommonIndices(vec1, vec2) ==
    LET d  == Dot(vec1, vec2)
        m1 == Dot(vec1, vec1)
        m2 == Dot(vec2, vec2)
    IN IF m1 = 0 \/ m2 = 0 THEN <<0, 1>> ELSE <<1, 1>>

calculateCosineSimilarity(vec1, vec2) ==
    IF Len(vec1) # Len(vec2) THEN SimThrow
    ELSE LET d  == Dot(vec1, vec2)
             m1 == Dot(vec1, vec1)   \* magnitude1 squared
             m2 == Dot(vec2, vec2)   \* magnitude2 squared
         IN IF m1 = 0 \/ m2 = 0 THEN <<0, 1>>
            ELSE Frac((IF d < 0 THEN -1 ELSE 1) * d * d, m1 * m2)

-----------------------------------------------------------------------------
(* Knowledge graph (services/graph.ts)                                     *)

\* mutant: a stricter threshold
ThresholdNinety == Hundredths(90)

SIMILARITY_THRESHOLD == Hundredths(60)
MentionsStrength == Hundredths(90)
ProjectOfStrength == Hundredths(95)
TopicOfStrength == Hundredths(85)

Whitespace == {" ", "\t"}

\* String.prototype.toLowerCase on one character of the model's alphabet
LowerChar(c) ==
    CASE c = "M" -> "m" [] c = "A" -> "a" [] c = "H" -> "h" [] c = "F" -> "f"
      [] OTHER -> c

RECURSIVE ReplaceWs(_, _)
\* replace(/\s+/g, "_"): every maximal run of whitespace becomes one "_";
\* inRun tells that the previous character was whitespace
ReplaceWs(s, inRun) ==
    IF s = <<>> THEN <<>>
    ELSE IF Head(s) \in Whitespace
         THEN (IF inRun THEN <<>> ELSE <<"_">>) \o ReplaceWs(Tail(s), TRUE)
         ELSE <<Head(s)>> \o ReplaceWs(Tail(s), FALSE)

\* label.toLowerCase().replace(/\s+/g, "_")
NormalizeLabel(label) ==
    ReplaceWs([i \in 1..Len(label) |-> LowerChar(label[i])], FALSE)

\* `note_${note.id}`
NoteNodeId(id) == <<"note", "_">> \o id

\* `${type}_${normalized label}`
EntityNodeId(type, label) == <<type, "_">> \o NormalizeLabel(label)

\* `edge_${type}_${from}_${to}`
generateEdgeId(from, to, type) == <<"edge", "_", type, "_">> \o from \o <<"_">> \o to

EmptyGraph == [nodes |-> <<>>, edges |-> <<>>]

\* findIndex((n) => n.id === id): first index with that id, 0 when none
IndexOfId(s, id) ==
    IF \E i \in 1..Len(s) : s[i].id = id
    THEN CHOOSE i \in 1..Len(s) : s[i].id = id /\ \A j \in 1..(i - 1) : s[j].id # id
    ELSE 0

\* { ...a, ...b } on objects held as functions over their keys
Spread(a, b) ==
    [k \in DOMAIN a \cup DOMAIN b |-> IF k \in DOMAIN b THEN b[k] ELSE a[k]]

\* mutant: the node is always pushed
addOrUpdateNodeAppend(g, node) == [g EXCEPT !.nodes = Append(g.nodes, node)]

addOrUpdateNode(g, node) ==
    LET i == IndexOfId(g.nodes, node.id)
    IN IF i > 0
       THEN [g EXCEPT !.nodes[i] =
                [Spread(g.nodes[i], node) EXCEPT
                    !.metadata = Spread(g.nodes[i].metadata, node.metadata)]]
       ELSE [g EXCEPT !.nodes = Append(g.nodes, node)]

\* mutant: the last strength wins
addEdgeOverwrite(g, edge) ==
    LET i == IndexOfId(g.edges, edge.id)
    IN IF i = 0 THEN [g EXCEPT !.edges = Append(g.edges, edge)]
       ELSE [g EXCEPT !.edges[i].strength = edge.strength]

addEdge(g, edge) ==
    LET i == IndexOfId(g.edges, edge.id)
    IN IF i = 0
       THEN [g EXCEPT !.edges = Append(g.edges, edge)]
       ELSE IF GT(edge.strength, g.edges[i].strength)
            THEN [g EXCEPT !.edges[i].strength = edge.strength]
            ELSE g

LabelMax == 50

\* content.substring(0, 50) + (content.length > 50 ? "..." : "")
NoteLabel(content) ==
    IF Len(content) > LabelMax
    THEN SubSeq(content, 1, LabelMax) \o <<"...">>
    ELSE content

addNoteToGraph(note, g) ==
    addOrUpdateNode(g,
        [id |-> NoteNodeId(note.id), type |-> "note",
         label |-> NoteLabel(note.content),
         embedding |-> note.embedding,
         metadata |-> [noteId |-> note.id, category |-> note.category,
                       createdAt |-> note.createdAt]])

\* (graph.nodes.find((n) => n.id === id)?.metadata?.count || 0) + 1
NextCount(g, id) ==
    LET i == IndexOfId(g.nodes, id)
    IN IF i > 0 /\ "count" \in DOMAIN g.nodes[i].metadata
       THEN g.nodes[i].metadata.count + 1
       ELSE 1

\* one pass of the forEach bodies of addEntityNodes / addTopicNodes
AddEntity(g, noteNodeId, type, label, edgeType, strength) ==
    LET nodeId == EntityNodeId(type, label)
        g1 == addOrUpdateNode(g,
                  [id |-> nodeId, type |-> type, label |-> label,
                   metadata |-> [count |-> NextCount(g, nodeId)]])
    IN addEdge(g1, [id |-> generateEdgeId(noteNodeId, nodeId, edgeType),
                    from |-> noteNodeId, to |-> nodeId,
                    type |-> edgeType, strength |-> strength])

RECURSIVE AddEntities(_, _, _, _, _, _)
\* labels.forEach(...)
AddEntities(g, noteNodeId, type, labels, edgeType, strength) ==
    IF labels = <<>> THEN g
    ELSE AddEntities(AddEntity(g, noteNodeId, type, Head(labels), edgeType, strength),
                     noteNodeId, type, Tail(labels), edgeType, strength)

addEntityNodes(note, g) ==
    IF note.entities = None THEN g
    ELSE LET e  == note.entities[1]
             id == NoteNodeId(note.id)
             g1 == AddEntities(g, id, "person", e.persons, "mentions", MentionsStrength)
             g2 == AddEntities(g1, id, "place", e.places, "mentions", MentionsStrength)
         IN AddEntities(g2, id, "project", e.projects, "projectOf", ProjectOfStrength)

addTopicNodes(note, topics, g) ==
    AddEntities(g, NoteNodeId(note.id), "topic", topics, "topicOf", TopicOfStrength)

\* mutant: only the forward edge is inserted
SimilarityEdgeOneWay(g, fromId, toId, similarity) ==
    addEdge(g, [id |-> generateEdgeId(fromId, toId, "similarTo"),
                from |-> fromId, to |-> toId,
                type |-> "similarTo", strength |-> similarity])

SimilarityEdgePair(g, fromId, toId, similarity) ==
    addEdge(addEdge(g, [id |-> generateEdgeId(fromId, toId, "similarTo"),
                        from |-> fromId, to |-> toId,
                        type |-> "similarTo", strength |-> similarity]),
            [id |-> generateEdgeId(toId, fromId, "similarTo"),
             from |-> toId, to |-> fromId,
             type |-> "similarTo", strength |-> similarity])

RECURSIVE SimilarityLoop(_, _, _)
\* allNotes.forEach(...) of addSimilarityEdges; r = [g, threw].  The loop ends at
\* the first comparison that raises, keeping the edges inserted before it.
SimilarityLoop(note, rest, r) ==
    IF rest = <<>> \/ r.threw THEN r
    ELSE LET other == Head(rest)
         IN IF other.id = note.id \/ other.embedding = None
            THEN SimilarityLoop(note, Tail(rest), r)
            ELSE LET sim == calculateCosineSimilarity(note.embedding[1], other.embedding[1])
                 IN IF sim = SimThrow
                    THEN [r EXCEPT !.threw = TRUE]
                    ELSE IF GE(sim, SIMILARITY_THRESHOLD)
                         THEN SimilarityLoop(note, Tail(rest),
                                  [r EXCEPT !.g = SimilarityEdgePair(r.g,
                                      NoteNodeId(note.id), NoteNodeId(other.id), sim)])
                         ELSE SimilarityLoop(note, Tail(rest), r)

\* returns [g |-> the graph after the call, threw |-> whether the call raised]
addSimilarityEdges(note, allNotes, g) ==
    IF note.embedding = None THEN [g |-> g, threw |-> FALSE]
    ELSE SimilarityLoop(note, allNotes, [g |-> g, threw |-> FALSE])

RECURSIVE BuildNoteNodes(_, _)
\* step 1 of buildGraphFromNotes
BuildNoteNodes(ns, g) ==
    IF ns = <<>> THEN g ELSE BuildNoteNodes(Tail(ns), addNoteToGraph(Head(ns), g))

RECURSIVE BuildEntities(_, _, _)
\* step 2 of buildGraphFromNotes; topicsMap is a function over the ids it has.
\* The forEach finishes one note before it starts the next: the test on g2
\* makes TLC compute the graph after this note before it goes on.
BuildEntities(ns, topicsMap, g) ==
    IF ns = <<>> THEN g
    ELSE LET n  == Head(ns)
             g1 == addEntityNodes(n, g)
             g2 == IF n.id \in DOMAIN topicsMap
                   THEN addTopicNodes(n, topicsMap[n.id], g1) ELSE g1
         IN IF Len(g2.edges) >= 0
            THEN BuildEntities(Tail(ns), topicsMap, g2)
            ELSE g2

RECURSIVE BuildSimilarity(_, _, _)
\* step 3 of buildGraphFromNotes
BuildSimilarity(ns, all, r) ==
    IF ns = <<>> \/ r.threw THEN r
    ELSE BuildSimilarity(Tail(ns), all, addSimilarityEdges(Head(ns), all, r.g))

\* returns [g, threw]: the graph returned, or threw = TRUE when the call raised
buildGraphFromNotes(ns, topicsMap) ==
    BuildSimilarity(ns, ns,
        [g |-> BuildEntities(ns, topicsMap, BuildNoteNodes(ns, EmptyGraph)),
         threw |-> FALSE])

\* mutant: the rebuild is given no topics
NoTopicsMap(ns) == <<>>

\* App.tsx: the topics map built from the notes' own entities
TopicsMapOf(ns) ==
    LET ids == {ns[i].id : i \in {j \in 1..Len(ns) : ns[j].entities # None}}
    IN [id \in ids |->
          LET i == CHOOSE j \in 1..Len(ns) :
                     /\ ns[j].id = id /\ ns[j].entities # None
                     /\ \A k \in (j + 1)..Len(ns) : ~(ns[k].id = id /\ ns[k].entities # None)
          IN ns[i].entities[1].topics]

-----------------------------------------------------------------------------
(* Notes (types/note.ts)                                                   *)

MkNote(id, content, category, createdAt, entities, embedding) ==
    [id |-> id, content |-> content, category |-> category,
     createdAt |-> createdAt, updatedAt |-> None,
     entities |-> entities, embedding |-> embedding,
     status |-> None, priority |-> None, dueDate |-> None]

Entities(persons, places, projects, topics) ==
    Some([persons |-> persons, places |-> places,
          projects |-> projects, topics |-> topics])

\* labels of the model: three spellings that normalize to "ma", three to "m_a"
LMaria == <<"M", "a">>
LmARIA == <<"m", "A">>
Lmaria == <<"m", "a">>
LmSpA == <<"m", " ", "a">>
LmWsA == <<"M", " ", "\t", "a">>
LmUnA == <<"m", "_", "a">>

\* the notes the graph operations are applied to
GraphNotes ==
    { MkNote(<<"n1">>, <<"a">>, "task", 1,
             Entities(<<LMaria>>, <<>>, <<>>, <<LmSpA>>), Some(<<1, 0>>)),
      MkNote(<<"n2">>, <<"b">>, "info", 2,
             Entities(<<Lmaria, LmARIA>>, <<LMaria>>, <<LmUnA>>, <<LmWsA>>), Some(<<2, 1>>)),
      MkNote(<<"n3">>, <<"c">>, "idea", 3,
             Entities(<<LmWsA>>, <<>>, <<LMaria>>, <<>>), Some(<<0, 1>>)),
      MkNote(<<"n4">>, <<"d">>, "info", 4,
             Entities(<<LMaria>>, <<>>, <<>>, <<Lmaria>>), None),
      MkNote(<<"n5">>, <<"e">>, "info", 5, None, Some(<<1>>)) }

MaxNotes == 2
MaxOps == 3

\* the sequences of at most n notes of S with pairwise distinct ids
RECURSIVE NoteLists(_, _)
NoteLists(S, n) ==
    IF n = 0 THEN {<<>>}
    ELSE LET shorter == NoteLists(S, n - 1)
         IN shorter \cup
            {Append(l, x) : <<l, x>> \in
                {p \in shorter \X S :
                    /\ Len(p[1]) = n - 1
                    /\ \A i \in 1..Len(p[1]) : p[1][i].id # p[2].id}}

Op(name, threw) == [op |-> name, threw |-> threw]

-----------------------------------------------------------------------------
(* SpecGraph: the graph operations applied, in any order, to the notes of  *)
(* a collection                                                            *)

InitGraph ==
    /\ graph = EmptyGraph
    /\ coll \in NoteLists(GraphNotes, MaxNotes)
    /\ ops = 0
    /\ inserted = {}
    /\ lastOp = Op("init", FALSE)
    /\ store = <<>>
    /\ clock = 0
    /\ out = None
    /\ calls = <<>>
    /\ remote = <<>>

AddNoteToGraphOp ==
    \E i \in 1..Len(coll) :
        /\ ops < MaxOps
        /\ graph' = addNoteToGraph(coll[i], graph)
        /\ ops' = ops + 1
        /\ lastOp' = Op("addNoteToGraph", FALSE)
        /\ UNCHANGED <<coll, inserted, store, clock, out, calls, remote>>

AddEntityNodesOp ==
    \E i \in 1..Len(coll) :
        /\ ops < MaxOps
        /\ graph' = addEntityNodes(coll[i], graph)
        /\ ops' = ops + 1
        /\ lastOp' = Op("addEntityNodes", FALSE)
        /\ UNCHANGED <<coll, inserted, store, clock, out, calls, remote>>

\* the callers pass the note's own topics (NotesView.tsx:100)
AddTopicNodesOp ==
    \E i \in 1..Len(coll) :
        /\ ops < MaxOps
        /\ coll[i].entities # None
        /\ graph' = addTopicNodes(coll[i], coll[i].entities[1].topics, graph)
        /\ ops' = ops + 1
        /\ lastOp' = Op("addTopicNodes", FALSE)
        /\ UNCHANGED <<coll, inserted, store, clock, out, calls, remote>>

AddSimilarityEdgesOp ==
    \E i \in 1..Len(coll) :
        LET r == addSimilarityEdges(coll[i], coll, graph)
        IN /\ ops < MaxOps
           /\ graph' = r.g
           /\ ops' = ops + 1
           /\ lastOp' = Op("addSimilarityEdges", r.threw)
           /\ UNCHANGED <<coll, inserted, store, clock, out, calls, remote>>

\* App.tsx:57-69 (with the topics map) and ChatView.tsx:207 (without); the
\* graph is replaced only when the call returns
BuildGraphOp ==
    \E withTopics \in BOOLEAN :
        LET r == buildGraphFromNotes(coll, IF withTopics THEN TopicsMapOf(coll) ELSE <<>>)
        IN /\ ops < MaxOps
           /\ graph' = IF r.threw THEN graph ELSE r.g
           /\ ops' = ops + 1
           /\ lastOp' = Op("buildGraphFromNotes", r.threw)
           /\ UNCHANGED <<coll, inserted, store, clock, out, calls, remote>>

NextGraph ==
    \/ AddNoteToGraphOp
    \/ AddEntityNodesOp
    \/ AddTopicNodesOp
    \/ AddSimilarityEdgesOp
    \/ BuildGraphOp

SpecGraph == InitGraph /\ [][NextGraph]_vars

EntityTypes == {"person", "place", "project", "topic"}

EdgesOfType(g, t) == {i \in 1..Len(g.edges) : g.edges[i].type = t}

\* C1: no two nodes of the graph share an identifier, and no two entity nodes
\* share (type, normalized label); every node added again was merged into the
\* node already there: a note node keeps its noteId, an entity node a count.
C1_NodeIdsUnique ==
    /\ \A i, j \in 1..Len(graph.nodes) :
          i # j =>
            /\ graph.nodes[i].id # graph.nodes[j].id
            /\ (graph.nodes[i].type \in EntityTypes /\ graph.nodes[j].type \in EntityTypes)
                 => <<graph.nodes[i].type, NormalizeLabel(graph.nodes[i].label)>>
                      # <<graph.nodes[j].type, NormalizeLabel(graph.nodes[j].label)>>
    /\ \A i \in 1..Len(graph.nodes) :
          IF graph.nodes[i].type = "note"
          THEN graph.nodes[i].id = NoteNodeId(graph.nodes[i].metadata.noteId)
          ELSE /\ graph.nodes[i].id = EntityNodeId(graph.nodes[i].type, graph.nodes[i].label)
               /\ graph.nodes[i].metadata.count >= 1

\* C1 witness: an entity was added again under another spelling (the node's
\* label is not its first spelling any more) next to a place of the same name
C1_Witness ==
    /\ \E i \in 1..Len(graph.nodes) :
          /\ graph.nodes[i].type = "person"
          /\ graph.nodes[i].metadata.count >= 2
          /\ graph.nodes[i].label = LmARIA
    /\ \E i \in 1..Len(graph.nodes) : graph.nodes[i].type = "place"
    /\ \E i \in 1..Len(graph.nodes) : graph.nodes[i].type = "note"

\* C3: similarity edges come in symmetric pairs of equal strength, and none
\* goes from a note to itself.
C3_SimilaritySymmetric ==
    \A i \in EdgesOfType(graph, "similarTo") :
        /\ graph.edges[i].from # graph.edges[i].to
        /\ \E j \in EdgesOfType(graph, "similarTo") :
              /\ graph.edges[j].from = graph.edges[i].to
              /\ graph.edges[j].to = graph.edges[i].from
              /\ graph.edges[j].strength = graph.edges[i].strength

\* C3 witness: addSimilarityEdges has just inserted similarity edges
C3_Witness ==
    /\ lastOp.op = "addSimilarityEdges"
    /\ EdgesOfType(graph, "similarTo") # {}

\* the distinct note nodes with an edge to node id
ReferencingNotes(g, id) ==
    {g.edges[i].from : i \in {j \in 1..Len(g.edges) : g.edges[j].to = id}}

\* C4 (as claimed): metadata.count of every entity node equals the number of
\* distinct notes with an edge to it.
C4_CountIsReferencingNotes ==
    \A i \in 1..Len(graph.nodes) :
        graph.nodes[i].type \in EntityTypes =>
            graph.nodes[i].metadata.count
                = Cardinality(ReferencingNotes(graph, graph.nodes[i].id))

\* the ordered pairs the claim names, with their similarity
ExpectedSimilarTo(ns) ==
    {<<NoteNodeId(ns[i].id), NoteNodeId(ns[j].id),
       calculateCosineSimilarity(ns[i].embedding[1], ns[j].embedding[1])>> :
        <<i, j>> \in {p \in (1..Len(ns)) \X (1..Len(ns)) :
            /\ ns[p[1]].id # ns[p[2]].id
            /\ ns[p[1]].embedding # None /\ ns[p[2]].embedding # None
            /\ Len(ns[p[1]].embedding[1]) = Len(ns[p[2]].embedding[1])
            /\ GE(calculateCosineSimilarity(ns[p[1]].embedding[1], ns[p[2]].embedding[1]),
                  Hundredths(60))}}

\* C5: the similarTo edges of the graph buildGraphFromNotes returns are exactly
\* the ordered pairs of distinct notes with embeddings of similarity >= 0.6,
\* one edge each, with that similarity as strength.
C5_BuildSimilarityExact ==
    (lastOp.op = "buildGraphFromNotes" /\ ~lastOp.threw) =>
        /\ {<<graph.edges[i].from, graph.edges[i].to, graph.edges[i].strength>> :
               i \in EdgesOfType(graph, "similarTo")} = ExpectedSimilarTo(coll)
        /\ Cardinality(EdgesOfType(graph, "similarTo"))
               = Cardinality(ExpectedSimilarTo(coll))

\* C5 witness: a graph built from two similar notes holds exactly two
\* similarity edges
C5_Witness ==
    /\ lastOp.op = "buildGraphFromNotes" /\ ~lastOp.threw
    /\ Len(coll) = 2
    /\ Cardinality(EdgesOfType(graph, "similarTo")) = 2

-----------------------------------------------------------------------------
(* SpecEdge: addEdge applied to any sequence of edges                      *)

MaxEdgeOps == 3

EdgeFroms == {NoteNodeId(<<"n1">>), NoteNodeId(<<"n2">>)}
EdgeTos == {NoteNodeId(<<"n1">>), EntityNodeId("person", LMaria)}
EdgeTypes == {"mentions", "similarTo"}
EdgeStrengths == {Hundredths(60), Frac(4, 5), Hundredths(90)}

InitEdge ==
    /\ graph = EmptyGraph
    /\ coll = <<>>
    /\ ops = 0
    /\ inserted = {}
    /\ lastOp = Op("init", FALSE)
    /\ store = <<>>
    /\ clock = 0
    /\ out = None
    /\ calls = <<>>
    /\ remote = <<>>

AddEdgeOp ==
    \E from \in EdgeFroms, to \in EdgeTos, type \in EdgeTypes, strength \in EdgeStrengths :
        LET edge == [id |-> generateEdgeId(from, to, type), from |-> from,
                     to |-> to, type |-> type, strength |-> strength]
        IN /\ ops < MaxEdgeOps
           /\ graph' = addEdge(graph, edge)
           /\ inserted' = inserted \cup {<<edge.id, strength>>}
           /\ ops' = ops + 1
           /\ lastOp' = [op |-> "addEdge", threw |-> FALSE, edge |-> edge]
           /\ UNCHANGED <<coll, store, clock, out, calls, remote>>

NextEdge == AddEdgeOp

SpecEdge == InitEdge /\ [][NextEdge]_vars

\* the strengths inserted so far under identifier id
InsertedStrengths(id) == {p[2] : p \in {q \in inserted : q[1] = id}}

C2_OneEdgeMaxStrength ==
    /\ \A i, j \in 1..Len(graph.edges) :
          i # j =>
            /\ graph.edges[i].id # graph.edges[j].id
            /\ <<graph.edges[i].type, graph.edges[i].from, graph.edges[i].to>>
                 # <<graph.edges[j].type, graph.edges[j].from, graph.edges[j].to>>
    /\ {graph.edges[i].id : i \in 1..Len(graph.edges)} = {p[1] : p \in inserted}
    /\ \A i \in 1..Len(graph.edges) :
          /\ graph.edges[i].strength \in InsertedStrengths(graph.edges[i].id)
          /\ \A x \in InsertedStrengths(graph.edges[i].id) : GE(graph.edges[i].strength, x)

C2_LowerInsertIsNoOp ==
    (\E i \in 1..Len(graph.edges) :
        /\ graph.edges[i].id = lastOp'.edge.id
        /\ GE(graph.edges[i].strength, lastOp'.edge.strength))
    => graph' = graph

\* C2: the graph holds one edge per identifier (type, from, to), exactly for the
\* identifiers inserted, each with the maximum strength inserted for it; and
\* inserting an existing edge with a lower or equal strength changes nothing.
C2_EdgeDedupMax == []C2_OneEdgeMaxStrength /\ [][C2_LowerInsertIsNoOp]_vars

\* C2 witness: an edge was inserted again with a lower strength and the graph
\* still holds the higher one
C2_Witness ==
    /\ lastOp.op = "addEdge"
    /\ \E i \in 1..Len(graph.edges) :
          /\ graph.edges[i].id = lastOp.edge.id
          /\ GT(graph.edges[i].strength, lastOp.edge.strength)
          /\ Cardinality(InsertedStrengths(graph.edges[i].id)) >= 2

-----------------------------------------------------------------------------
(* Sorting                                                                 *)

\* Array.prototype.sort with a comparator that orders by keys[i] ascending:
\* the sort is stable, equal keys keep their order.  keys runs parallel to s.
StableSort(s, keys) ==
    LET n == Len(s)
        rank(i) == 1 + Cardinality({j \in 1..n :
                        keys[j] < keys[i] \/ (keys[j] = keys[i] /\ j < i)})
    IN [r \in 1..n |-> s[CHOOSE i \in 1..n : rank(i) = r]]

\* Array.prototype.filter on indices: the elements of s at the indices in keep
RECURSIVE FilterIdx(_, _, _)
FilterIdx(s, keep, i) ==
    IF i > Len(s) THEN <<>>
    ELSE (IF i \in keep THEN <<s[i]>> ELSE <<>>) \o FilterIdx(s, keep, i + 1)

\* mutant: nothing is cut off
SliceAll(s, n) == s

\* Array.prototype.slice(0, n)
Slice(s, n) == SubSeq(s, 1, IF Len(s) < n THEN Len(s) ELSE n)

-----------------------------------------------------------------------------
(* Automation engine (services/automation.ts).  Instants (Date.now(), a   *)
(* note's createdAt) are whole hours; a dueDate is a calendar day number.  *)

Day == 24

DUPLICATE_THRESHOLD == Hundredths(88)

\* indices of the notes detectDuplicates compares with note and finds similar
SimilarIdx(note, allNotes, threshold) ==
    {i \in 1..Len(allNotes) :
        /\ allNotes[i].id # note.id
        /\ allNotes[i].embedding # None
        /\ GE(calculateCosineSimilarity(note.embedding[1], allNotes[i].embedding[1]),
              threshold)}

\* whether detectDuplicates(note, allNotes) raises: some comparison it makes does
DuplicatesThrow(note, allNotes) ==
    /\ note.embedding # None
    /\ \E i \in 1..Len(allNotes) :
          /\ allNotes[i].id # note.id
          /\ allNotes[i].embedding # None
          /\ calculateCosineSimilarity(note.embedding[1], allNotes[i].embedding[1]) = SimThrow

\* detectDuplicates, when it does not raise: no group, or the one group
\* [note, ...similarNotes] as a list of notes
detectDuplicates(note, allNotes, threshold) ==
    IF note.embedding = None THEN <<>>
    ELSE LET similarNotes == FilterIdx(allNotes, SimilarIdx(note, allNotes, threshold), 1)
         IN IF Len(similarNotes) > 0
            THEN <<[notes |-> <<note>> \o similarNotes]>>
            ELSE <<>>

RECURSIVE TrimStart(_)
TrimStart(c) ==
    IF c # <<>> /\ Head(c) \in Whitespace THEN TrimStart(Tail(c)) ELSE c

RECURSIVE TrimEnd(_)
TrimEnd(c) ==
    IF c # <<>> /\ c[Len(c)] \in Whitespace
    THEN TrimEnd(SubSeq(c, 1, Len(c) - 1)) ELSE c

\* String.prototype.trim
Trim(c) == TrimEnd(TrimStart(c))

\* mutant: contents are compared untrimmed
TrimNothing(c) == c

MergeContent(c) == Trim(c)

\* suggestMergeNotes for a group of at least two notes
suggestMergeNotes(duplicates) ==
    LET sorted == StableSort(duplicates,
                      [i \in 1..Len(duplicates) |-> duplicates[i].createdAt])
        uniqueContents == {MergeContent(sorted[i].content) : i \in 1..Len(sorted)}
    IN [notes |-> sorted,
        confidence |-> IF Cardinality(uniqueContents) = 1 THEN 95 ELSE 75]

OutdatedDays == 90
VeryOutdatedDays == 180

\* detectOutdatedNotes(notes, daysOld) evaluated on day now
detectOutdatedNotes(ns, daysOld, now) ==
    LET hit == {i \in 1..Len(ns) :
                   /\ now - ns[i].createdAt > daysOld * Day
                   /\ ns[i].updatedAt = None}
        found == FilterIdx(ns, hit, 1)
    IN [i \in 1..Len(found) |->
          [type |-> "outdated", noteId |-> found[i].id,
           confidence |-> IF now - found[i].createdAt > VeryOutdatedDays * Day
                          THEN 90 ELSE 60]]

\* task.status || "open"
StatusOf(n) == IF n.status = None THEN "open" ELSE n.status[1]

ShortTaskLength == 10

\* detectIncompleteTasks
detectIncompleteTasks(tasks) ==
    LET hit == {i \in 1..Len(tasks) :
                   /\ tasks[i].category = "task"
                   /\ StatusOf(tasks[i]) # "done"
                   /\ \/ tasks[i].dueDate = None
                      \/ tasks[i].priority = None
                      \/ Len(tasks[i].content) < ShortTaskLength}
        found == FilterIdx(tasks, hit, 1)
    IN [i \in 1..Len(found) |->
          [type |-> "incomplete", noteId |-> found[i].id, confidence |-> 80]]

\* content.split(/\s+/).length: the number of whitespace runs, plus one
WordCount(c) ==
    1 + Cardinality({i \in 1..Len(c) :
            c[i] \in Whitespace /\ (i = 1 \/ c[i - 1] \notin Whitespace)})

HasEntities(n) ==
    /\ n.entities # None
    /\ \/ Len(n.entities[1].persons) > 0
       \/ Len(n.entities[1].places) > 0
       \/ Len(n.entities[1].projects) > 0
       \/ Len(n.entities[1].topics) > 0

MinWords == 3
ManyWords == 5

\* detectAmbiguousNotes
detectAmbiguousNotes(ns) ==
    LET hit == {i \in 1..Len(ns) :
                   \/ WordCount(ns[i].content) < MinWords
                   \/ (~HasEntities(ns[i]) /\ WordCount(ns[i].content) > ManyWords)}
        found == FilterIdx(ns, hit, 1)
    IN [i \in 1..Len(found) |->
          [type |-> "ambiguous", noteId |-> found[i].id,
           confidence |-> IF WordCount(found[i].content) < MinWords THEN 70 ELSE 50]]

-----------------------------------------------------------------------------
(* Topic clusters and emerging projects                                    *)

\* graph.edges.filter(e => e.to === topicNode.id && e.type === "topicOf")
TopicEdges(g, topicId) ==
    FilterIdx(g.edges, {e \in 1..Len(g.edges) :
                           g.edges[e].to = topicId /\ g.edges[e].type = "topicOf"}, 1)

\* the cluster pushed for a topic node (its average strength is never read
\* by the engine and is left out)
ClusterOf(g, topicNode) ==
    LET topicEdges == TopicEdges(g, topicNode.id)
    IN [topic |-> topicNode.label,
        noteIds |-> [m \in 1..Len(topicEdges) |-> topicEdges[m].from]]

\* detectTopicClusters
detectTopicClusters(g, minNotes) ==
    LET big == FilterIdx(g.nodes,
                   {t \in 1..Len(g.nodes) :
                       /\ g.nodes[t].type = "topic"
                       /\ Len(TopicEdges(g, g.nodes[t].id)) >= minNotes}, 1)
        clusters == [c \in 1..Len(big) |-> ClusterOf(g, big[c])]
    IN StableSort(clusters, [c \in 1..Len(clusters) |-> 0 - Len(clusters[c].noteIds)])

\* UTF-16 code units of the characters of the model
CharCode(c) ==
    CASE c = "\t" -> 9 [] c = " " -> 32 [] c = "+" -> 43 [] c = "A" -> 65
      [] c = "M" -> 77 [] c = "_" -> 95 [] c = "a" -> 97 [] c = "b" -> 98
      [] c = "m" -> 109 [] c = "|" -> 124 [] c = "f" -> 102 [] c = "j" -> 106
      [] c = "t" -> 116 [] c = "x" -> 120

\* a < b for strings, by code units
RECURSIVE StrLess(_, _)
StrLess(a, b) ==
    IF b = <<>> THEN FALSE
    ELSE IF a = <<>> THEN TRUE
    ELSE IF Head(a) = Head(b) THEN StrLess(Tail(a), Tail(b))
    ELSE CharCode(Head(a)) < CharCode(Head(b))

\* [x, y].sort().join("|")
PairKey(x, y) ==
    IF StrLess(y, x) THEN y \o <<"|">> \o x ELSE x \o <<"|">> \o y

\* key.split("|")
RECURSIVE SplitBar(_, _)
SplitBar(key, cur) ==
    IF key = <<>> THEN <<cur>>
    ELSE IF Head(key) = "|" THEN <<cur>> \o SplitBar(Tail(key), <<>>)
    ELSE SplitBar(Tail(key), Append(cur, Head(key)))

\* topics.join(" + ")
RECURSIVE JoinPlus(_)
JoinPlus(topics) ==
    IF Len(topics) = 0 THEN <<>>
    ELSE IF Len(topics) = 1 THEN topics[1]
    ELSE topics[1] \o <<" ", "+", " ">> \o JoinPlus(Tail(topics))

TopicsOf(n) == IF n.entities = None THEN <<>> ELSE n.entities[1].topics

\* the keys of the pairs (i, j), i < j, of one note's topics, in loop order
RECURSIVE NotePairKeys(_, _, _)
NotePairKeys(topics, i, j) ==
    IF i > Len(topics) THEN <<>>
    ELSE IF j > Len(topics) THEN NotePairKeys(topics, i + 1, i + 2)
    ELSE <<PairKey(topics[i], topics[j])>> \o NotePairKeys(topics, i, j + 1)

\* combinations.get(key) updated for one pair of note noteId
CountPair(combos, key, noteId) ==
    LET hit == {k \in 1..Len(combos) : combos[k].key = key}
    IN IF hit = {}
       THEN Append(combos, [key |-> key, count |-> 1, noteIds |-> <<noteId>>])
       ELSE LET k == CHOOSE k \in hit : TRUE
            IN [combos EXCEPT ![k] = [key |-> key, count |-> @.count + 1,
                                      noteIds |-> Append(@.noteIds, noteId)]]

RECURSIVE CountPairs(_, _, _)
CountPairs(combos, keys, noteId) ==
    IF keys = <<>> THEN combos
    ELSE CountPairs(CountPair(combos, Head(keys), noteId), Tail(keys), noteId)

RECURSIVE CountNotes(_, _)
CountNotes(combos, ns) ==
    IF ns = <<>> THEN combos
    ELSE CountNotes(
            IF Len(TopicsOf(Head(ns))) >= 2
            THEN CountPairs(combos, NotePairKeys(TopicsOf(Head(ns)), 1, 2), Head(ns).id)
            ELSE combos,
            Tail(ns))

\* findFrequentTopicCombinations
findFrequentTopicCombinations(ns, minOccurrences) ==
    LET combos == CountNotes(<<>>, ns)
        kept == FilterIdx(combos, {k \in 1..Len(combos) :
                                      combos[k].count >= minOccurrences}, 1)
    IN [k \in 1..Len(kept) |->
          [topics |-> SplitBar(kept[k].key, <<>>), count |-> kept[k].count,
           noteIds |-> kept[k].noteIds]]

ClusterMinNotes == 4
ComboMinOccurrences == 3
ComboMinCount == 4
ProjectCandidateConfidence == 50
ComboConfidenceCap == 90

\* the persons the notes ns mention, as a set
PersonsOf(ns) ==
    UNION {IF ns[i].entities = None THEN {}
           ELSE {ns[i].entities[1].persons[k] :
                    k \in 1..Len(ns[i].entities[1].persons)} : i \in 1..Len(ns)}

\* the project a cluster gives rise to, or none (automation.ts:420-450);
\* confidences in hundredths (0.2 + 0.4 is 0.6000000000000001 in the code:
\* it passes the same thresholds as 0.6 and sorts where a stable sort puts 60)
ClusterProject(cluster, ns, g) ==
    LET existingProjectEdges ==
            {k \in 1..Len(g.edges) :
                /\ g.edges[k].type = "projectOf"
                /\ \E n \in 1..Len(g.nodes) :
                      g.nodes[n].id = g.edges[k].to /\ g.nodes[n].label = cluster.topic}
        clusterNotes == FilterIdx(ns, {i \in 1..Len(ns) :
                            \E k \in 1..Len(cluster.noteIds) :
                                cluster.noteIds[k] = ns[i].id}, 1)
        taskCount == Cardinality({i \in 1..Len(clusterNotes) :
                                     clusterNotes[i].category = "task"})
        hasMultiplePeople == Cardinality(PersonsOf(clusterNotes)) > 1
        confidence == (IF taskCount >= 2 THEN 40 ELSE 20)
                      + (IF hasMultiplePeople THEN 40 ELSE 20)
    IN IF /\ existingProjectEdges = {}
          /\ Len(cluster.noteIds) >= ClusterMinNotes
          /\ confidence >= ProjectCandidateConfidence
       THEN <<[name |-> cluster.topic, relatedNoteIds |-> cluster.noteIds,
               topics |-> <<cluster.topic>>, confidence |-> confidence]>>
       ELSE <<>>

RECURSIVE ClusterProjects(_, _, _)
ClusterProjects(clusters, ns, g) ==
    IF clusters = <<>> THEN <<>>
    ELSE ClusterProject(Head(clusters), ns, g) \o ClusterProjects(Tail(clusters), ns, g)

\* the loop over the topic combinations (automation.ts:455-470)
RECURSIVE ComboProjects(_, _)
ComboProjects(projects, combos) ==
    IF combos = <<>> THEN projects
    ELSE LET combo == Head(combos)
             comboName == JoinPlus(combo.topics)
             conf == IF combo.count * 10 < ComboConfidenceCap
                     THEN combo.count * 10 ELSE ComboConfidenceCap
         IN ComboProjects(
               IF /\ combo.count >= ComboMinCount
                  /\ ~\E k \in 1..Len(projects) : projects[k].name = comboName
               THEN Append(projects,
                           [name |-> comboName, relatedNoteIds |-> combo.noteIds,
                            topics |-> combo.topics, confidence |-> conf])
               ELSE projects,
               Tail(combos))

\* detectEmergingProjects
detectEmergingProjects(ns, g) ==
    LET clusters == detectTopicClusters(g, ClusterMinNotes)
        emergingProjects ==
            ComboProjects(ClusterProjects(clusters, ns, g),
                          findFrequentTopicCombinations(ns, ComboMinOccurrences))
    IN StableSort(emergingProjects,
                  [k \in 1..Len(emergingProjects) |-> 0 - emergingProjects[k].confidence])

-----------------------------------------------------------------------------
(* Next actions and the proactive generator                                *)

NoTopicsMin == 5
ActionOutdatedDays == 120
ActionOutdatedMin == 3
ActionRecentWindow == 20
StaleDays == 7
RelatedMax == 10

PriorityOrder(p) == CASE p = "high" -> 0 [] p = "medium" -> 1 [] p = "low" -> 2

NoteIdsOf(ns) == [i \in 1..Len(ns) |-> ns[i].id]

RECURSIVE Flatten(_)
Flatten(ss) == IF ss = <<>> THEN <<>> ELSE Head(ss) \o Flatten(Tail(ss))

\* the groups detectDuplicates finds for the first window notes of ns
RECURSIVE DuplicateGroups(_, _, _)
DuplicateGroups(ns, window, i) ==
    IF i > Len(ns) \/ i > window THEN <<>>
    ELSE detectDuplicates(ns[i], ns, DUPLICATE_THRESHOLD)
         \o DuplicateGroups(ns, window, i + 1)

\* suggestNextActions evaluated at instant now, when no comparison raises
suggestNextActions(ns, tasks, g, now) ==
    LET today == now \div Day
        overdueTasks == FilterIdx(tasks, {i \in 1..Len(tasks) :
                            /\ tasks[i].dueDate # None
                            /\ tasks[i].dueDate[1] < today
                            /\ StatusOf(tasks[i]) # "done"}, 1)
        notesWithoutTopics == FilterIdx(ns, {i \in 1..Len(ns) :
                                  Len(TopicsOf(ns[i])) = 0}, 1)
        outdatedSuggestions == detectOutdatedNotes(ns, ActionOutdatedDays, now)
        duplicateGroups == DuplicateGroups(ns, ActionRecentWindow, 1)
        staleInProgressTasks ==
            FilterIdx(tasks, {i \in 1..Len(tasks) :
                /\ StatusOf(tasks[i]) = "in_progress"
                /\ now - (IF tasks[i].updatedAt # None THEN tasks[i].updatedAt[1]
                          ELSE tasks[i].createdAt) > StaleDays * Day}, 1)
        suggestions ==
            (IF Len(overdueTasks) > 0
             THEN <<[type |-> "task", title |-> <<"Ueberfaellige Aufgaben bearbeiten">>,
                     priority |-> "high",
                     relatedNoteIds |-> NoteIdsOf(overdueTasks)]>>
             ELSE <<>>)
            \o (IF Len(notesWithoutTopics) >= NoTopicsMin
                THEN <<[type |-> "organize", title |-> <<"Notizen kategorisieren">>,
                        priority |-> "low",
                        relatedNoteIds |->
                            NoteIdsOf(Slice(notesWithoutTopics, RelatedMax))]>>
                ELSE <<>>)
            \o (IF Len(outdatedSuggestions) >= ActionOutdatedMin
                THEN <<[type |-> "cleanup", title |-> <<"Alte Notizen aufraeumen">>,
                        priority |-> "low",
                        relatedNoteIds |->
                            [i \in 1..Len(Slice(outdatedSuggestions, RelatedMax)) |->
                                outdatedSuggestions[i].noteId]]>>
                ELSE <<>>)
            \o (IF Len(duplicateGroups) > 0
                THEN <<[type |-> "organize", title |-> <<"Duplikate pruefen">>,
                        priority |-> "medium",
                        relatedNoteIds |->
                            Slice(Flatten([k \in 1..Len(duplicateGroups) |->
                                      NoteIdsOf(duplicateGroups[k].notes)]), RelatedMax)]>>
                ELSE <<>>)
            \o (IF Len(staleInProgressTasks) > 0
                THEN <<[type |-> "follow_up", title |-> <<"Aufgaben-Status aktualisieren">>,
                        priority |-> "medium",
                        relatedNoteIds |-> NoteIdsOf(staleInProgressTasks)]>>
                ELSE <<>>)
    IN StableSort(suggestions,
                  [k \in 1..Len(suggestions) |-> PriorityOrder(suggestions[k].priority)])

\* `${prefix}-${key}-${Date.now()}`
SuggestionId(prefix, key, now) == [prefix |-> prefix, key |-> key, stamp |-> now]

MkSuggestion(id, type, title, data, confidence, now) ==
    [id |-> id, type |-> type, title |-> title, data |-> data,
     confidence |-> confidence, createdAt |-> now, status |-> "pending"]

RecentWindow == 10
ProjectMinConfidence == 60
CleanupTop == 3
CleanupMinConfidence == 70
ActionsTop == 2

\* getTasks
getTasks(ns) == FilterIdx(ns, {i \in 1..Len(ns) : ns[i].category = "task"}, 1)

\* step 1 of the generator: one suggestion per recent note with duplicates
DuplicateSuggestions(ns, now) ==
    LET seeds == FilterIdx(ns, {i \in 1..Len(ns) :
                     /\ i <= RecentWindow
                     /\ detectDuplicates(ns[i], ns, DUPLICATE_THRESHOLD) # <<>>}, 1)
    IN [k \in 1..Len(seeds) |->
          LET mergeSuggestion ==
                  suggestMergeNotes(
                      detectDuplicates(seeds[k], ns, DUPLICATE_THRESHOLD)[1].notes)
          IN MkSuggestion(SuggestionId("dup", seeds[k].id, now), "duplicate",
                 <<"Moegliche Duplikate gefunden">>,
                 [notes |-> NoteIdsOf(mergeSuggestion.notes),
                  confidence |-> mergeSuggestion.confidence],
                 mergeSuggestion.confidence, now)]

\* step 2: the emerging projects confident enough
ProjectSuggestions(ns, g, now) ==
    LET emergingProjects == detectEmergingProjects(ns, g)
        kept == FilterIdx(emergingProjects,
                    {k \in 1..Len(emergingProjects) :
                        emergingProjects[k].confidence >= ProjectMinConfidence}, 1)
    IN [k \in 1..Len(kept) |->
          MkSuggestion(SuggestionId("proj", kept[k].name, now), "emerging_project",
              <<"Neues Projekt erkannt: ">> \o kept[k].name, kept[k],
              kept[k].confidence, now)]

CleanupTitle(type) ==
    IF type = "outdated" THEN <<"Alte Notiz">>
    ELSE IF type = "incomplete" THEN <<"Unvollstaendiger Task">>
    ELSE <<"Unklare Notiz">>

\* step 3: of the first three cleanup findings, those confident enough
CleanupSuggestions(ns, tasks, now) ==
    LET allCleanup == detectOutdatedNotes(ns, OutdatedDays, now)
                      \o detectIncompleteTasks(tasks)
                      \o detectAmbiguousNotes(ns)
        top == Slice(allCleanup, CleanupTop)
        kept == FilterIdx(top, {k \in 1..Len(top) :
                              top[k].confidence >= CleanupMinConfidence}, 1)
    IN [k \in 1..Len(kept) |->
          MkSuggestion(SuggestionId("clean", kept[k].noteId, now), "cleanup",
              CleanupTitle(kept[k].type), kept[k], kept[k].confidence, now)]

\* step 4: the first two next actions
ActionSuggestions(ns, tasks, g, now) ==
    LET top == Slice(suggestNextActions(ns, tasks, g, now), ActionsTop)
    IN [k \in 1..Len(top) |->
          MkSuggestion(SuggestionId("action", <<top[k].type>>, now), "action",
              top[k].title, top[k],
              IF top[k].priority = "high" THEN 90
              ELSE IF top[k].priority = "medium" THEN 70 ELSE 50,
              now)]

\* mutant: the list is returned in generation order
SortNothing(suggestions) == suggestions

\* suggestions.sort((a, b) => b.confidence - a.confidence)
SortByConfidence(suggestions) ==
    StableSort(suggestions,
               [k \in 1..Len(suggestions) |-> 0 - suggestions[k].confidence])

\* whether a run raises: some detectDuplicates call of step 1 or step 4 does
GeneratorThrows(ns) ==
    \E i \in 1..Len(ns) : i <= ActionRecentWindow /\ DuplicatesThrow(ns[i], ns)

\* generateProactiveSuggestions over the stored notes ns and graph g at
\* instant now: the list it resolves to, or threw when it rejects
generateProactiveSuggestions(ns, g, now) ==
    IF GeneratorThrows(ns) THEN [threw |-> TRUE, list |-> <<>>]
    ELSE LET tasks == getTasks(ns)
         IN [threw |-> FALSE,
             list |-> SortByConfidence(
                          DuplicateSuggestions(ns, now)
                          \o ProjectSuggestions(ns, g, now)
                          \o CleanupSuggestions(ns, tasks, now)
                          \o ActionSuggestions(ns, tasks, g, now))]

-----------------------------------------------------------------------------
(* Suggestion store (storage/localStorage.ts)                              *)

\* mutant: every suggestion is stored
addAISuggestionAlways(st, suggestion) == <<suggestion>> \o st

\* addAISuggestion: the stored array after the call
addAISuggestion(st, suggestion) ==
    LET isDuplicate == \E i \in 1..Len(st) :
                          /\ st[i].type = suggestion.type
                          /\ st[i].title = suggestion.title
                          /\ st[i].status = "pending"
    IN IF ~isDuplicate THEN <<suggestion>> \o st ELSE st

\* suggestions.forEach(suggestion => addAISuggestion(suggestion))
RECURSIVE AddAll(_, _)
AddAll(st, list) ==
    IF list = <<>> THEN st
    ELSE AddAll(addAISuggestion(st, Head(list)), Tail(list))

\* findIndex(s => s.id === id): 0 stands for -1
IndexOfSuggestion(st, id) ==
    IF \E i \in 1..Len(st) : st[i].id = id
    THEN CHOOSE i \in 1..Len(st) :
            st[i].id = id /\ \A j \in 1..(i - 1) : st[j].id # id
    ELSE 0

\* mutant: the newest suggestion is accepted, whatever the id
acceptAISuggestionNewest(st, id) ==
    IF Len(st) > 0 THEN [st EXCEPT ![1].status = "accepted"] ELSE st

\* acceptAISuggestion
acceptAISuggestion(st, id) ==
    LET index == IndexOfSuggestion(st, id)
    IN IF index # 0 THEN [st EXCEPT ![index].status = "accepted"] ELSE st

\* rejectAISuggestion
rejectAISuggestion(st, id) ==
    LET index == IndexOfSuggestion(st, id)
    IN IF index # 0 THEN [st EXCEPT ![index].status = "rejected"] ELSE st

SevenDays == 7

\* clearOldAISuggestions at instant now
clearOldAISuggestions(st, now) ==
    LET sevenDaysAgo == now - SevenDays * Day
    IN FilterIdx(st, {i \in 1..Len(st) :
                         st[i].createdAt > sevenDaysAgo \/ st[i].status = "pending"}, 1)

\* deleteNote
deleteNote(ns, id) == FilterIdx(ns, {i \in 1..Len(ns) : ns[i].id # id}, 1)

-----------------------------------------------------------------------------
(* The notes the automation engine is run on                               *)

Now0 == 200 * Day

Xyz == <<"x", " ", "y", " ", "z">>
TopicA == <<"a">>
TopicB == <<"b">>

\* d1, d2 and d5 are at similarity 1 to each other, d3 at exactly 0.88 to
\* them, d4 at 0.5; d2's content is d1's with a trailing blank, d5's is d1's
SuggNotes ==
    { MkNote(<<"d1">>, Xyz, "info", Now0 - 3 * Day,
             Entities(<<>>, <<>>, <<>>, <<TopicA>>), Some(<<1, 0, 0, 0>>)),
      MkNote(<<"d2">>, Xyz \o <<" ">>, "info", Now0 - 2 * Day,
             Entities(<<>>, <<>>, <<>>, <<TopicA>>), Some(<<1, 0, 0, 0>>)),
      MkNote(<<"d3">>, <<"x", " ", "y", " ", "w">>, "idea", Now0 - 4 * Day,
             Entities(<<LMaria>>, <<>>, <<>>, <<>>), Some(<<22, 10, 5, 4>>)),
      MkNote(<<"d4">>, Xyz, "info", Now0 - Day,
             Entities(<<>>, <<>>, <<>>, <<TopicB>>), Some(<<1, 1, 1, 1>>)),
      MkNote(<<"d5">>, Xyz, "info", Now0 - 5 * Day,
             Entities(<<>>, <<>>, <<>>, <<TopicA>>), Some(<<1, 0, 0, 0>>)),
      [MkNote(<<"t1">>, <<"x">>, "task", Now0 - 8 * Day,
              Entities(<<LMaria>>, <<>>, <<>>, <<>>), None)
          EXCEPT !.status = Some("in_progress"), !.dueDate = Some(199)],
      MkNote(<<"o1">>, Xyz, "info", Now0 - 180 * Day,
             Entities(<<>>, <<>>, <<>>, <<TopicB>>), None),
      MkNote(<<"p1">>, Xyz, "idea", Now0 - Day,
             Entities(<<>>, <<>>, <<>>, <<TopicA, TopicB, TopicA, TopicB, TopicA>>), None),
      MkNote(<<"e1">>, Xyz, "info", Now0 - Day, None, Some(<<1>>)) }

MaxSuggNotes == 3

\* the graph App.tsx:54-69 leaves for the stored notes ns: built when the
\* stored graph is empty, left empty when the build raises
StartupGraph(ns) ==
    LET r == buildGraphFromNotes(ns, TopicsMapOf(ns))
    IN IF Len(ns) = 0 \/ r.threw THEN EmptyGraph ELSE r.g

NoRun == [ran |-> FALSE, notes |-> <<>>, graph |-> EmptyGraph, now |-> 0,
          threw |-> FALSE, list |-> <<>>]

\* one run of the generator on the stored notes and graph
RunOf(ns, g, now) ==
    LET r == generateProactiveSuggestions(ns, g, now)
    IN [ran |-> TRUE, notes |-> ns, graph |-> g, now |-> now,
        threw |-> r.threw, list |-> r.list]

-----------------------------------------------------------------------------
(* Specification SpecGen: the generator applied to stored notes            *)

MaxGenTicks == 1

InitGen ==
    /\ coll \in NoteLists(SuggNotes, MaxSuggNotes)
    /\ graph = StartupGraph(coll)
    /\ ops = 0
    /\ inserted = {}
    /\ lastOp = Op("init", FALSE)
    /\ store = <<>>
    /\ clock = Now0
    /\ out = NoRun
    /\ calls = <<>>
    /\ remote = <<>>

GenerateOp ==
    /\ out' = RunOf(coll, graph, clock)
    /\ lastOp' = Op("generateProactiveSuggestions", out'.threw)
    /\ UNCHANGED <<graph, coll, ops, inserted, store, clock, calls, remote>>

GenTickOp ==
    /\ ops < MaxGenTicks
    /\ clock' = clock + 1
    /\ ops' = ops + 1
    /\ lastOp' = Op("tick", FALSE)
    /\ UNCHANGED <<graph, coll, inserted, store, out, calls, remote>>

NextGen == GenerateOp \/ GenTickOp

SpecGen == InitGen /\ [][NextGen]_vars

-----------------------------------------------------------------------------
(* Claims about one generator run (checked under SpecGen)                  *)

Returned == out.ran /\ ~out.threw

\* C9 (as stated): the list one run of generateProactiveSuggestions returns is
\* sorted strictly by descending confidence, each suggestion's confidence
\* being greater than that of the suggestion after it.
C9_StrictlyDescending ==
    Returned =>
        \A k \in 1..(Len(out.list) - 1) :
            out.list[k].confidence > out.list[k + 1].confidence

\* C9 (amended): the list one run of generateProactiveSuggestions returns is
\* sorted by descending confidence, each suggestion's confidence being at
\* least that of the suggestion after it; equal confidences occur.
C9_Descending ==
    Returned =>
        \A k \in 1..(Len(out.list) - 1) :
            out.list[k].confidence >= out.list[k + 1].confidence

\* a returned list with a tie and with a strict drop
C9_Witness ==
    /\ Returned
    /\ \E k \in 1..(Len(out.list) - 1) :
          out.list[k].confidence = out.list[k + 1].confidence
    /\ \E k \in 1..(Len(out.list) - 1) :
          out.list[k].confidence > out.list[k + 1].confidence

\* the other notes of the run that the seed at index i is grouped with
GroupedWith(i) ==
    {j \in 1..Len(out.notes) :
        /\ j # i
        /\ out.notes[i].embedding # None
        /\ out.notes[j].embedding # None
        /\ GE(calculateCosineSimilarity(out.notes[i].embedding[1],
                                        out.notes[j].embedding[1]),
              Hundredths(88))}

GroupIds(i) == {out.notes[j].id : j \in GroupedWith(i) \cup {i}}

\* the duplicate suggestions the run returned for the seed at index i
ProposalsFor(i) ==
    {k \in 1..Len(out.list) :
        /\ out.list[k].type = "duplicate"
        /\ out.list[k].id = SuggestionId("dup", out.notes[i].id, out.now)}

ByteIdentical(i) ==
    \A j \in GroupedWith(i) : out.notes[j].content = out.notes[i].content

IdenticalTrimmed(i) ==
    \A j \in GroupedWith(i) : Trim(out.notes[j].content) = Trim(out.notes[i].content)

\* the run's merge proposals cover the seed and the notes at similarity at
\* least 0.88 to it, with confidence 95 for groups of identical contents
\* (their bytes, or what is left of them once trimmed) and 75 for the others
MergeProposals(trimmed) ==
    Returned =>
        \A i \in 1..Len(out.notes) :
            IF GroupedWith(i) = {}
            THEN ProposalsFor(i) = {}
            ELSE /\ Cardinality(ProposalsFor(i)) = 1
                 /\ \A k \in ProposalsFor(i) :
                       LET group == out.list[k].data.notes
                           same == IF trimmed THEN IdenticalTrimmed(i)
                                   ELSE ByteIdentical(i)
                       IN /\ {group[n] : n \in 1..Len(group)} = GroupIds(i)
                          /\ Len(group) = Cardinality(GroupIds(i))
                          /\ out.list[k].confidence = IF same THEN 95 ELSE 75

-----------------------------------------------------------------------------
(* Specification SpecSugg: the schedulers, the user and the clock acting   *)
(* on the suggestion store.  A run has one suspension point (the await of  *)
(* automation.ts:656, on a promise that is already settled) and resumes    *)
(* before any timer or event handler runs, so a run is one step.           *)

MaxSuggOps == 4

NoteById(id) == CHOOSE n \in SuggNotes : n.id = <<id>>

\* the note stores the runs start from, newest note first
SuggColls ==
    { <<NoteById("d2"), NoteById("d1"), NoteById("d4")>>,
      <<NoteById("p1"), NoteById("t1"), NoteById("o1")>>,
      <<NoteById("e1"), NoteById("d3")>> }

UnknownId == SuggestionId("none", <<>>, 0)

\* the ids an accept or a reject is called with
CallIds == {store[i].id : i \in 1..Len(store)} \cup {UnknownId}

\* the clock steps: to the next reading, and a week
ClockSteps == {1, SevenDays * Day}

SuggOp(name, threw, id) == [op |-> name, threw |-> threw, id |-> id]

InitSugg ==
    /\ coll \in SuggColls
    /\ graph = StartupGraph(coll)
    /\ ops = 0
    /\ inserted = {}
    /\ lastOp = SuggOp("init", FALSE, UnknownId)
    /\ store = <<>>
    /\ clock = Now0
    /\ out = NoRun
    /\ calls = <<>>
    /\ remote = <<>>

\* generateProactiveSuggestions, then addAISuggestion for each suggestion of
\* the list; a run that raises stores nothing
RunCycle(by) ==
    /\ ops < MaxSuggOps
    /\ out' = RunOf(coll, graph, clock)
    /\ store' = IF out'.threw THEN store ELSE AddAll(store, out'.list)
    /\ ops' = ops + 1
    /\ lastOp' = [op |-> "cycle", threw |-> out'.threw, id |-> UnknownId, by |-> by]
    /\ UNCHANGED <<graph, coll, inserted, clock, calls, remote>>

\* the 60-second scheduler of App.tsx:132-147
AppAutomationCycle == RunCycle("runAutomationCycle")

\* the run five seconds after startup, App.tsx:77-86
StartupRun == RunCycle("initializeIntelligenceSystem")

\* the view's scheduler, its run on mount and the manual run,
\* classifyNote.ts:89-96 and 109-134
ViewProactiveRun == RunCycle("runProactiveSuggestions")

\* AISuggestionsView mounts: classifyNote.ts:86
ViewMount ==
    /\ ops < MaxSuggOps
    /\ store' = clearOldAISuggestions(store, clock)
    /\ ops' = ops + 1
    /\ lastOp' = SuggOp("clearOld", FALSE, UnknownId)
    /\ UNCHANGED <<graph, coll, inserted, clock, out, calls, remote>>

\* App.tsx:249-255
handleAccept ==
    \E id \in CallIds :
        /\ ops < MaxSuggOps
        /\ store' = acceptAISuggestion(store, id)
        /\ ops' = ops + 1
        /\ lastOp' = SuggOp("accept", FALSE, id)
        /\ UNCHANGED <<graph, coll, inserted, clock, out, calls, remote>>

\* App.tsx:257-260
handleReject ==
    \E id \in CallIds :
        /\ ops < MaxSuggOps
        /\ store' = rejectAISuggestion(store, id)
        /\ ops' = ops + 1
        /\ lastOp' = SuggOp("reject", FALSE, id)
        /\ UNCHANGED <<graph, coll, inserted, clock, out, calls, remote>>

\* NotesView.tsx:120-123: the note leaves the note store, the graph is kept
handleDeleteNote ==
    \E i \in 1..Len(coll) :
        /\ ops < MaxSuggOps
        /\ coll' = deleteNote(coll, coll[i].id)
        /\ ops' = ops + 1
        /\ lastOp' = SuggOp("deleteNote", FALSE, UnknownId)
        /\ UNCHANGED <<graph, inserted, store, clock, out, calls, remote>>

ClockStep ==
    \E d \in ClockSteps :
        /\ ops < MaxSuggOps
        /\ clock' = clock + d
        /\ ops' = ops + 1
        /\ lastOp' = SuggOp("tick", FALSE, UnknownId)
        /\ UNCHANGED <<graph, coll, inserted, store, out, calls, remote>>

NextSugg ==
    \/ AppAutomationCycle
    \/ StartupRun
    \/ ViewProactiveRun
    \/ ViewMount
    \/ handleAccept
    \/ handleReject
    \/ handleDeleteNote
    \/ ClockStep

SpecSugg == InitSugg /\ [][NextSugg]_vars

-----------------------------------------------------------------------------
(* Claims about the suggestion store (checked under SpecSugg)              *)

Pending(i) == store[i].status = "pending"

\* the step taken is a generator run
CycleStep == ops' = ops + 1 /\ lastOp'.op = "cycle"

NoTwoPendingAlike ==
    \A i, j \in 1..Len(store) :
        (i < j /\ Pending(i) /\ Pending(j))
            => ~(store[i].type = store[j].type /\ store[i].title = store[j].title)

\* a run over the notes and graph of the run before it stores nothing
RerunAddsNothing ==
    (CycleStep /\ out.ran /\ out.notes = coll /\ out.graph = graph)
        => store' = store

\* a run that follows a run at once (same notes, same graph, same clock
\* reading, nothing accepted, rejected or cleared in between) stores nothing
ImmediateRerunAddsNothing ==
    (CycleStep /\ lastOp.op = "cycle" /\ out.ran /\ out.notes = coll
        /\ out.graph = graph /\ out.now = clock)
        => store' = store

\* C6 (as stated): after any sequence of automation cycles, accepts, rejects
\* and clearOldAISuggestions calls the store never holds two pending
\* suggestions with the same (type, title), and re-running the engine over
\* an unchanged note/graph snapshot adds no suggestion.
C6_RerunAddsNone == []NoTwoPendingAlike /\ [][RerunAddsNothing]_vars

\* C6 (amended): after any sequence of automation cycles, accepts, rejects
\* and clearOldAISuggestions calls the store never holds two pending
\* suggestions with the same (type, title); a run that follows another at
\* once, over the same notes, graph and clock reading, adds no suggestion,
\* while a run after an accept or a reject may store the suggestion again.
C6_NoTwoPendingAlike == []NoTwoPendingAlike /\ [][ImmediateRerunAddsNothing]_vars

\* a run has stored again a suggestion that was decided since the run before:
\* the store holds a decided and a pending suggestion of one (type, title)
C6_Witness ==
    /\ lastOp.op = "cycle"
    /\ Len(out.list) > 0
    /\ \E i, j \in 1..Len(store) :
          /\ Pending(i) /\ ~Pending(j)
          /\ store[i].type = store[j].type /\ store[i].title = store[j].title

\* a and b are equal but for their status
SameButStatus(a, b) == [a EXCEPT !.status = b.status] = b

\* store' is store with the suggestions at some indices removed
OnlyRemoved == \E K \in SUBSET (1..Len(store)) : store' = FilterIdx(store, K, 1)

\* what a step does to the stored suggestions: a run puts pending ones in
\* front; an accept or a reject sets the status of at most one, of the id it
\* was called with, to accepted or rejected; no other step alters any
StatusOnlyByAcceptReject ==
    (ops' = ops + 1) =>
        IF lastOp'.op = "cycle"
        THEN \E k \in 0..Len(store') :
                /\ Len(store') = Len(store) + k
                /\ SubSeq(store', k + 1, Len(store')) = store
                /\ \A i \in 1..k : store'[i].status = "pending"
        ELSE IF lastOp'.op \in {"accept", "reject"}
        THEN /\ Len(store') = Len(store)
             /\ (\A i \in 1..Len(store) : store[i].id # lastOp'.id) => store' = store
             /\ Cardinality({i \in 1..Len(store) : store'[i] # store[i]}) <= 1
             /\ \A i \in 1..Len(store) :
                   store'[i] # store[i] =>
                       /\ SameButStatus(store'[i], store[i])
                       /\ store[i].id = lastOp'.id
                       /\ store'[i].status =
                             IF lastOp'.op = "accept" THEN "accepted" ELSE "rejected"
        ELSE OnlyRemoved

\* C7: a stored suggestion is created pending and changed afterwards only by
\* acceptAISuggestion or rejectAISuggestion, which alter nothing but its
\* status and leave every other suggestion untouched; a suggestion that has
\* left pending never becomes pending again, and an accept or a reject with
\* an unknown id leaves the store unchanged.
C7_StatusOnlyByAcceptReject == [][StatusOnlyByAcceptReject]_vars

\* an accept with an unknown id has just left a store with a pending, an
\* accepted and a rejected suggestion as it was
C7_Witness ==
    /\ lastOp.op = "accept"
    /\ \A i \in 1..Len(store) : store[i].id # lastOp.id
    /\ \E i \in 1..Len(store) : store[i].status = "pending"
    /\ \E i \in 1..Len(store) : store[i].status = "accepted"
    /\ \E i \in 1..Len(store) : store[i].status = "rejected"

\* a step removes suggestions only in clearOldAISuggestions, and then only
\* suggestions that are not pending and were created more than 7 days before
RemovedOnlyWhenOld ==
    (ops' = ops + 1) =>
        IF lastOp'.op = "clearOld"
        THEN \E K \in SUBSET (1..Len(store)) :
                /\ store' = FilterIdx(store, K, 1)
                /\ \A i \in (1..Len(store)) \ K :
                      /\ store[i].status # "pending"
                      /\ clock - store[i].createdAt > 7 * Day
        ELSE \E k \in 0..Len(store') :
                /\ Len(store') = Len(store) + k
                /\ \A i \in 1..Len(store) : SameButStatus(store'[i + k], store[i])

\* C8: a suggestion leaves the store only through clearOldAISuggestions, and
\* only when it is not pending and was created more than 7 days ago; a
\* pending suggestion is never removed, whatever its age, and no other
\* operation deletes a suggestion.
C8_RemovedOnlyWhenOld == [][RemovedOnlyWhenOld]_vars

-----------------------------------------------------------------------------
(* Specification SpecProj: detectEmergingProjects applied to stored notes  *)
(* and the graph built from them                                           *)

\* notes without embeddings: q1..q4 and q6 carry the topic "a", q1..q3 and
\* q5 the pair "a", "b"; q1 and q2 are tasks naming two persons; q5 belongs
\* to a project named "a"
ProjNotes ==
    { MkNote(<<"q1">>, Xyz, "task", Now0 - Day,
             Entities(<<LMaria>>, <<>>, <<>>, <<TopicA, TopicB>>), None),
      MkNote(<<"q2">>, Xyz, "task", Now0 - Day,
             Entities(<<Lmaria>>, <<>>, <<>>, <<TopicA, TopicB>>), None),
      MkNote(<<"q3">>, Xyz, "info", Now0 - Day,
             Entities(<<>>, <<>>, <<>>, <<TopicB, TopicA>>), None),
      MkNote(<<"q4">>, Xyz, "info", Now0 - Day,
             Entities(<<LMaria>>, <<>>, <<>>, <<TopicA>>), None),
      MkNote(<<"q5">>, Xyz, "idea", Now0 - Day,
             Entities(<<>>, <<>>, <<TopicA>>, <<TopicA, TopicB>>), None),
      MkNote(<<"q6">>, Xyz, "idea", Now0 - Day,
             Entities(<<>>, <<>>, <<>>, <<TopicA>>), None) }

MaxProjNotes == 4

InitProj ==
    /\ coll \in NoteLists(ProjNotes, MaxProjNotes)
    /\ graph = StartupGraph(coll)
    /\ ops = 0
    /\ inserted = {}
    /\ lastOp = Op("init", FALSE)
    /\ store = <<>>
    /\ clock = Now0
    /\ out = NoRun
    /\ calls = <<>>
    /\ remote = <<>>

DetectProjectsOp ==
    /\ out' = [ran |-> TRUE, notes |-> coll, graph |-> graph, now |-> clock,
               threw |-> FALSE, list |-> detectEmergingProjects(coll, graph)]
    /\ lastOp' = Op("detectEmergingProjects", FALSE)
    /\ UNCHANGED <<graph, coll, ops, inserted, store, clock, calls, remote>>

NextProj == DetectProjectsOp

SpecProj == InitProj /\ [][NextProj]_vars

\* the notes of the run linked by topicOf edges to the node at index t
LinkedNotes(t) ==
    {i \in 1..Len(out.notes) :
        \E k \in 1..Len(out.graph.edges) :
            /\ out.graph.edges[k].type = "topicOf"
            /\ out.graph.edges[k].to = out.graph.nodes[t].id
            /\ out.graph.edges[k].from = NoteNodeId(out.notes[i].id)}

\* the topic at index t is linked to at least 4 notes, no project node bears
\* its label, and its notes hold at least 2 tasks or name more than 1 person
ProjectLike(t) ==
    /\ out.graph.nodes[t].type = "topic"
    /\ Cardinality(LinkedNotes(t)) >= 4
    /\ ~\E n \in 1..Len(out.graph.nodes) :
          /\ out.graph.nodes[n].type = "project"
          /\ out.graph.nodes[n].label = out.graph.nodes[t].label
    /\ \/ Cardinality({i \in LinkedNotes(t) : out.notes[i].category = "task"}) >= 2
       \/ Cardinality(UNION {IF out.notes[i].entities = None THEN {}
                             ELSE {out.notes[i].entities[1].persons[k] :
                                      k \in 1..Len(out.notes[i].entities[1].persons)} :
                             i \in LinkedNotes(t)}) > 1

\* C11: given the notes and the graph buildGraphFromNotes builds from them,
\* every topic linked by topicOf edges to at least 4 notes, with no project
\* node associated and whose notes hold at least 2 tasks or name more than 1
\* person, is returned by detectEmergingProjects as a candidate of its name.
C11_ClusterCandidates ==
    out.ran =>
        \A t \in 1..Len(out.graph.nodes) :
            ProjectLike(t) =>
                \E k \in 1..Len(out.list) : out.list[k].name = out.graph.nodes[t].label

\* the topics of the notes of the run
RunTopics ==
    UNION {{TopicsOf(out.notes[i])[k] : k \in 1..Len(TopicsOf(out.notes[i]))} :
              i \in 1..Len(out.notes)}

\* the notes of the run that carry both topics
NotesWithBoth(x, y) ==
    {i \in 1..Len(out.notes) :
        /\ \E k \in 1..Len(TopicsOf(out.notes[i])) : TopicsOf(out.notes[i])[k] = x
        /\ \E k \in 1..Len(TopicsOf(out.notes[i])) : TopicsOf(out.notes[i])[k] = y}

\* C12: every pair of topics that occurs together in at least 3 notes is
\* returned by detectEmergingProjects as a candidate named after the two.
C12_PairCandidates ==
    out.ran =>
        \A x, y \in RunTopics :
            (x # y /\ Cardinality(NotesWithBoth(x, y)) >= 3) =>
                \E k \in 1..Len(out.list) :
                    out.list[k].name \in {x \o <<" ", "+", " ">> \o y,
                                          y \o <<" ", "+", " ">> \o x}

-----------------------------------------------------------------------------
(* Specification SpecOutdated: notes are updated, time passes, and         *)
(* detectOutdatedNotes is applied to the stored notes                      *)

\* updateNote(id, updates) called at instant now (localStorage.ts:47-61)
updateNote(ns, id, updates, now) ==
    LET index == IndexOfId(ns, id)
    IN IF index # 0
       THEN [ns EXCEPT ![index] =
                Spread(Spread(ns[index], updates), [updatedAt |-> Some(now)])]
       ELSE ns

\* notes created 89 days, 90 days, 90 days and an hour, 180 days, and 180
\* days and an hour before Now0, never updated
OutdatedNotes ==
    { MkNote(<<"a1">>, Xyz, "info", Now0 - 89 * Day, None, None),
      MkNote(<<"a2">>, Xyz, "info", Now0 - OutdatedDays * Day, None, None),
      MkNote(<<"a3">>, Xyz, "info", Now0 - OutdatedDays * Day - 1, None, None),
      MkNote(<<"a4">>, Xyz, "info", Now0 - VeryOutdatedDays * Day, None, None),
      MkNote(<<"a5">>, Xyz, "info", Now0 - VeryOutdatedDays * Day - 1, None, None) }

\* an id no stored note has
MissingNoteId == <<"zz">>

\* the updates argument of updateNote
NoteUpdates == {[content |-> <<"x">>], [category |-> "idea"]}

OutdatedClockSteps == {1, OutdatedDays * Day}

MaxOutdatedNotes == 2
MaxOutdatedOps == 3

InitOutdated ==
    /\ coll \in NoteLists(OutdatedNotes, MaxOutdatedNotes)
    /\ graph = EmptyGraph
    /\ ops = 0
    /\ inserted = {}
    /\ lastOp = Op("init", FALSE)
    /\ store = <<>>
    /\ clock = Now0
    /\ out = NoRun
    /\ calls = <<>>
    /\ remote = <<>>

UpdateNoteOp ==
    \E id \in {coll[i].id : i \in 1..Len(coll)} \cup {MissingNoteId}, u \in NoteUpdates :
        /\ ops < MaxOutdatedOps
        /\ coll' = updateNote(coll, id, u, clock)
        /\ ops' = ops + 1
        /\ lastOp' = Op("updateNote", FALSE)
        /\ UNCHANGED <<graph, inserted, store, clock, out, calls, remote>>

OutdatedClockStep ==
    \E d \in OutdatedClockSteps :
        /\ ops < MaxOutdatedOps
        /\ clock' = clock + d
        /\ ops' = ops + 1
        /\ lastOp' = Op("tick", FALSE)
        /\ UNCHANGED <<graph, coll, inserted, store, out, calls, remote>>

DetectOutdatedOp ==
    /\ out' = [ran |-> TRUE, notes |-> coll, graph |-> graph, now |-> clock,
               threw |-> FALSE,
               list |-> detectOutdatedNotes(coll, OutdatedDays, clock)]
    /\ lastOp' = Op("detectOutdatedNotes", FALSE)
    /\ UNCHANGED <<graph, coll, ops, inserted, store, clock, calls, remote>>

NextOutdated == UpdateNoteOp \/ OutdatedClockStep \/ DetectOutdatedOp

SpecOutdated == InitOutdated /\ [][NextOutdated]_vars

\* the instant the note was last created or updated
LastTouched(n) == IF n.updatedAt = None THEN n.createdAt ELSE n.updatedAt[1]

\* the entries of the run's result for the note at index i
FlagsOf(i) == {k \in 1..Len(out.list) : out.list[k].noteId = out.notes[i].id}

\* C13: detectOutdatedNotes flags every note untouched (neither created nor
\* updated) for more than 90 days, with confidence 0.6, or 0.9 when untouched
\* for more than 180 days, and flags no note touched within the last 90 days.
C13_FlagsUntouched ==
    out.ran =>
        \A i \in 1..Len(out.notes) :
            LET idle == out.now - LastTouched(out.notes[i])
            IN IF idle > OutdatedDays * Day
               THEN /\ FlagsOf(i) # {}
                    /\ \A k \in FlagsOf(i) :
                          out.list[k].confidence =
                              IF idle > VeryOutdatedDays * Day THEN 90 ELSE 60
               ELSE FlagsOf(i) = {}

-----------------------------------------------------------------------------
(* Specification SpecTop: the generator run on notes that yield more       *)
(* cleanup findings and next actions than it keeps                         *)

\* k1 and k2 are short overdue tasks in progress, 181 days old, at
\* similarity 1 to each other; k3 is 100 and k4 130 days old; k5 is recent
TopNotes ==
    { [MkNote(<<"k1">>, <<"x">>, "task", Now0 - 181 * Day, None, Some(<<1, 0>>))
          EXCEPT !.status = Some("in_progress"), !.dueDate = Some(199)],
      [MkNote(<<"k2">>, <<"x">>, "task", Now0 - 181 * Day, None, Some(<<1, 0>>))
          EXCEPT !.status = Some("in_progress"), !.dueDate = Some(199)],
      MkNote(<<"k3">>, Xyz, "info", Now0 - 100 * Day,
             Entities(<<>>, <<>>, <<>>, <<TopicA>>), None),
      MkNote(<<"k4">>, Xyz, "info", Now0 - 130 * Day,
             Entities(<<>>, <<>>, <<>>, <<TopicA>>), None),
      MkNote(<<"k5">>, Xyz, "info", Now0 - Day,
             Entities(<<>>, <<>>, <<>>, <<TopicB>>), None) }

MaxTopNotes == 3

InitTop ==
    /\ coll \in NoteLists(TopNotes, MaxTopNotes)
    /\ graph = StartupGraph(coll)
    /\ ops = 0
    /\ inserted = {}
    /\ lastOp = Op("init", FALSE)
    /\ store = <<>>
    /\ clock = Now0
    /\ out = NoRun
    /\ calls = <<>>
    /\ remote = <<>>

SpecTop == InitTop /\ [][NextGen]_vars

\* the suggestions of the given type in the returned list, in its order
ReturnedOfType(type) ==
    FilterIdx(out.list, {k \in 1..Len(out.list) : out.list[k].type = type}, 1)

\* what the cleanup detectors find on the notes of the run
CleanupFound ==
    detectOutdatedNotes(out.notes, OutdatedDays, out.now)
    \o detectIncompleteTasks(getTasks(out.notes))
    \o detectAmbiguousNotes(out.notes)

\* the next actions of the notes of the run
ActionsFound ==
    suggestNextActions(out.notes, getTasks(out.notes), out.graph, out.now)

\* C14: each run of generateProactiveSuggestions returns at most 3 cleanup
\* suggestions and at most 2 action suggestions, however many findings the
\* detectors produce; the actions returned are the first two of the list of
\* next actions, which is ordered high, then medium, then low priority.
C14_TopCleanupAndActions ==
    Returned =>
        LET acts == ReturnedOfType("action")
        IN /\ Len(ReturnedOfType("cleanup")) <= 3
           /\ Len(acts) <= 2
           /\ Len(acts) = IF Len(ActionsFound) < 2 THEN Len(ActionsFound) ELSE 2
           /\ \A k \in 1..Len(acts) : acts[k].data = ActionsFound[k]
           /\ \A j, k \in 1..Len(ActionsFound) :
                 j < k => PriorityOrder(ActionsFound[j].priority)
                             <= PriorityOrder(ActionsFound[k].priority)

\* a run with more than 3 cleanup findings and more than 2 next actions, of
\* which 3 and 2 are returned
C14_Witness ==
    /\ Returned
    /\ Len(CleanupFound) > 3
    /\ Len(ActionsFound) > 2
    /\ Len(ReturnedOfType("cleanup")) = 3
    /\ Len(ReturnedOfType("action")) = 2

-----------------------------------------------------------------------------
(* NLP pipeline (services/nlpPipeline.ts).  A JSON value is a record with  *)
(* its kind k and, but for null and undefined, its value v: an object's v  *)
(* is a function over its keys, an array's a sequence, a string's its      *)
(* name.  A text typed by the user is a sequence of characters, "sz"       *)
(* standing for the sharp s.  The keyword-derived fields of an item        *)
(* (category, priority, entities of the fallback) depend on the item's     *)
(* content alone and are left out.                                         *)

JNull == [k |-> "null"]
JUndef == [k |-> "undef"]
JNum(n) == [k |-> "num", v |-> n]
JStr(name) == [k |-> "str", v |-> name]
JArr(elems) == [k |-> "arr", v |-> elems]
JObj(fields) == [k |-> "obj", v |-> fields]
\* a string made of the characters of a user text
JText(text) == [k |-> "text", v |-> text]
\* an ISO date string, by its day number
JDate(day) == [k |-> "date", v |-> day]
\* a body that JSON parsing rejects
JBad == [k |-> "bad"]
\* the evaluation raised
JThrow == [k |-> "throw"]

\* v.key: a TypeError on null and undefined, undefined when v has no such key
Prop(v, key) ==
    IF v.k = "throw" \/ v.k = "null" \/ v.k = "undef" THEN JThrow
    ELSE IF v.k = "obj"
         THEN IF key \in DOMAIN v.v THEN v.v[key] ELSE JUndef
         ELSE JUndef

\* v?.key
OptProp(v, key) ==
    IF v.k = "null" \/ v.k = "undef" THEN JUndef ELSE Prop(v, key)

\* v[0]
First(v) ==
    IF v.k = "throw" \/ v.k = "null" \/ v.k = "undef" THEN JThrow
    ELSE IF v.k = "arr"
         THEN IF Len(v.v) > 0 THEN v.v[1] ELSE JUndef
         ELSE JUndef

\* whether v is truthy
Truthy(v) ==
    ~ \/ v.k = "null" \/ v.k = "undef"
      \/ v.k = "str" /\ v.v = ""
      \/ v.k = "text" /\ v.v = <<>>
      \/ v.k = "num" /\ v.v = 0

\* a || b
Or(a, b) == IF Truthy(a) THEN a ELSE b

\* the strings that are JSON texts, with the values they parse to
JsonTexts ==
    ("full" :> JObj(("items" :> JArr(<<JObj(("content" :> JStr("a"))
                                             @@ ("category" :> JStr("task"))
                                             @@ ("dueDate" :> JStr("morgen"))),
                                       JObj(("dueDate" :> JStr("a")))>>))
                   @@ ("contextSummary" :> JStr("s"))))
    @@ ("bare" :> JObj(("items" :> JArr(<<JNum(5)>>))))
    @@ ("empty" :> JObj(("items" :> JArr(<<>>))))
    @@ ("noItems" :> JObj(("contextSummary" :> JStr("s"))))
    @@ ("itemsString" :> JObj(("items" :> JStr("a"))))
    @@ ("itemsObject" :> JObj(("items" :> JObj(("map" :> JStr("a"))))))
    @@ ("nullItem" :> JObj(("items" :> JArr(<<JNull>>))))
    @@ ("numericDate" :> JObj(("items" :> JArr(<<JObj(("dueDate" :> JNum(5)))>>))))
    @@ ("null" :> JNull)
    @@ ("array" :> JArr(<<>>))
    @@ ("five" :> JNum(5))

\* JSON.parse(content): the value, or a SyntaxError
JsonParse(content) ==
    IF content.k = "num" THEN content
    ELSE IF content.k = "str" /\ content.v \in DOMAIN JsonTexts
         THEN JsonTexts[content.v]
         ELSE JThrow

\* parseRelativeDate on the expressions of the model ("heute", "morgen" and
\* strings that are no date expression), today being a day number
parseRelativeDate(dateExpression, today) ==
    IF ~Truthy(dateExpression) THEN JNull
    ELSE IF dateExpression.k # "str" THEN JThrow
    ELSE IF dateExpression.v = "heute" THEN JDate(today)
    ELSE IF dateExpression.v = "morgen" THEN JDate(today + 1)
    ELSE JNull

\* the body of aiResult.items.map(...) for one item
NlpItemOf(item, text, today) ==
    IF item.k = "null" \/ item.k = "undef" THEN JThrow
    ELSE LET dueDate == parseRelativeDate(Prop(item, "dueDate"), today)
         IN IF dueDate = JThrow THEN JThrow
            ELSE [type |-> Or(Prop(item, "type"), JStr("info")),
                  content |-> Or(Prop(item, "content"), JText(text)),
                  category |-> Or(Prop(item, "category"), JStr("info")),
                  dueDate |-> dueDate,
                  reasoning |-> Or(Prop(item, "reasoning"), JStr("KI-Analyse"))]

\* mutant: anything that is no array counts as no items
MapItemsLenient(items, text, today) ==
    IF items.k # "arr" THEN JArr(<<>>)
    ELSE JArr([i \in 1..Len(items.v) |-> NlpItemOf(items.v[i], text, today)])

\* aiResult.items.map(...): the array of items, or JThrow when the call raises
MapItems(items, text, today) ==
    IF items.k # "arr" THEN JThrow
    ELSE LET mapped == [i \in 1..Len(items.v) |-> NlpItemOf(items.v[i], text, today)]
         IN IF \E i \in 1..Len(mapped) : mapped[i] = JThrow
            THEN JThrow ELSE JArr(mapped)

\* lines 303-348 of analyzeUserInput on the body of an OK response: the
\* result, or JThrow when a statement raises
ProcessReply(body, text, today) ==
    IF body = JBad THEN JThrow
    ELSE LET content == OptProp(OptProp(First(Prop(body, "choices")), "message"),
                                "content")
         IN IF content = JThrow \/ ~Truthy(content) THEN JThrow
            ELSE LET aiResult == JsonParse(content)
                     items == MapItems(Prop(aiResult, "items"), text, today)
                 IN IF aiResult = JThrow \/ items = JThrow THEN JThrow
                    ELSE [items |-> items.v,
                          contextSummary |-> Prop(aiResult, "contextSummary")]

Und == <<"u", "n", "d">>
Ausserdem == <<"a", "u", "sz", "e", "r", "d", "e", "m">>

\* whether \s word \s matches at position i of text
MatchWord(text, i, word) ==
    /\ i + Len(word) + 1 <= Len(text)
    /\ text[i] \in Whitespace
    /\ SubSeq(text, i + 1, i + Len(word)) = word
    /\ text[i + Len(word) + 1] \in Whitespace

RECURSIVE SplitText(_, _, _)
\* text.split(/,|\sund\s|\sausserdem\s/) from position i on, cur being the
\* part collected so far
SplitText(text, i, cur) ==
    IF i > Len(text) THEN <<cur>>
    ELSE IF text[i] = "," THEN <<cur>> \o SplitText(text, i + 1, <<>>)
    ELSE IF MatchWord(text, i, Und)
         THEN <<cur>> \o SplitText(text, i + Len(Und) + 2, <<>>)
    ELSE IF MatchWord(text, i, Ausserdem)
         THEN <<cur>> \o SplitText(text, i + Len(Ausserdem) + 2, <<>>)
    ELSE SplitText(text, i + 1, Append(cur, text[i]))

MinPartLength == 3

fallbackAnalysis(text) ==
    LET split == SplitText(text, 1, <<>>)
        trimmed == [i \in 1..Len(split) |-> Trim(split[i])]
        parts == FilterIdx(trimmed, {i \in 1..Len(trimmed) :
                                        Len(trimmed[i]) > MinPartLength}, 1)
    IN IF Len(parts) > 1
       THEN [items |-> [i \in 1..Len(parts) |->
                           [content |-> JText(parts[i]),
                            reasoning |-> JStr("Fallback: Keyword-basierte Analyse")]],
             contextSummary |-> [k |-> "count", v |-> Len(parts)]]
       ELSE [items |-> <<[content |-> JText(text),
                          reasoning |-> JStr("Fallback: Einfache Klassifizierung")]>>,
             contextSummary |-> JStr("Einzelner Eintrag")]

-----------------------------------------------------------------------------
(* Specification SpecNlp: one call of analyzeUserInput and the remote       *)
(* endpoint it talks to                                                    *)

\* "abcd,efgh", "abcd und efgh", "abcdund efgh", "abcd ausserdem efgh",
\* "abc, de", "abcd, ef", "abcd" and the empty text
NlpTexts ==
    { <<"a", "b", "c", "d", ",", "e", "f", "g", "h">>,
      <<"a", "b", "c", "d", " ", "u", "n", "d", "\t", "e", "f", "g", "h">>,
      <<"a", "b", "c", "d", "u", "n", "d", " ", "e", "f", "g", "h">>,
      <<"a", "b", "c", "d", " ", "a", "u", "sz", "e", "r", "d", "e", "m", " ",
        "e", "f", "g", "h">>,
      <<"a", "b", "c", ",", " ", "d", "e">>,
      <<"a", "b", "c", "d", ",", " ", "e", "f">>,
      <<"a", "b", "c", "d">>,
      <<>> }

\* a chat completion whose first choice carries the given content
Completion(content) ==
    JObj(("choices" :> JArr(<<JObj(("message" :> JObj(("content" :> content))))>>)))

\* the bodies the endpoint may send with an OK status
NlpBodies ==
    {Completion(JStr(name)) : name \in DOMAIN JsonTexts \cup {"", "hello"}}
    \cup {Completion(JNull), Completion(JNum(5)),
          JObj(("choices" :> JArr(<<JObj(("index" :> JNum(0)))>>))),
          JObj(("choices" :> JArr(<<>>))),
          JObj(("error" :> JStr("a"))),
          JNull, JBad}

HttpStatuses == {200, 404, 500}

InitNlp ==
    /\ graph = EmptyGraph
    /\ coll = <<>>
    /\ ops = 0
    /\ inserted = {}
    /\ lastOp = Op("init", FALSE)
    /\ store = <<>>
    /\ clock = Now0
    /\ out = NoRun
    /\ \E text \in NlpTexts, hasKey \in BOOLEAN :
          calls = [pc |-> "idle", text |-> text, hasKey |-> hasKey,
                   timer |-> "unset", cause |-> "none", reply |-> JUndef,
                   result |-> None]
    /\ remote = [requests |-> 0, phase |-> "idle"]

\* the call returns the fallback analysis, for the given cause
ReturnFallback(c, cause) ==
    [c EXCEPT !.pc = "returned", !.cause = cause,
              !.result = Some(fallbackAnalysis(c.text))]

\* analyzeUserInput(text) up to its first await (lines 154-166)
AnalyzeCall ==
    /\ calls.pc = "idle"
    /\ IF ~calls.hasKey
       THEN /\ calls' = ReturnFallback(calls, "nokey")
            /\ UNCHANGED remote
       ELSE /\ calls' = [calls EXCEPT !.pc = "fetching", !.timer = "armed"]
            /\ remote' = [requests |-> remote.requests + 1, phase |-> "pending"]
    /\ lastOp' = Op("analyzeUserInput", FALSE)
    /\ UNCHANGED <<graph, coll, ops, inserted, store, clock, out>>

\* fetch rejects (network error): the catch block runs, the timer stays armed
FetchFails ==
    /\ calls.pc = "fetching"
    /\ calls' = ReturnFallback(calls, "error")
    /\ remote' = [remote EXCEPT !.phase = "done"]
    /\ lastOp' = Op("fetch", TRUE)
    /\ UNCHANGED <<graph, coll, ops, inserted, store, clock, out>>

\* the timer of line 162 fires: controller.abort() rejects a pending fetch
AbortTimer ==
    /\ calls.timer = "armed"
    /\ calls' = IF calls.pc = "fetching"
                THEN [ReturnFallback(calls, "abort") EXCEPT !.timer = "fired"]
                ELSE [calls EXCEPT !.timer = "fired"]
    /\ remote' = [remote EXCEPT !.phase = "done"]
    /\ lastOp' = Op("abort", calls.pc = "fetching")
    /\ UNCHANGED <<graph, coll, ops, inserted, store, clock, out>>

\* fetch resolves with the response headers (lines 297-303)
ResponseHeaders ==
    \E status \in HttpStatuses :
        /\ calls.pc = "fetching"
        /\ calls' = IF status >= 200 /\ status <= 299
                    THEN [calls EXCEPT !.pc = "reading", !.timer = "cleared"]
                    ELSE [ReturnFallback(calls, "status") EXCEPT !.timer = "cleared"]
        /\ remote' = [remote EXCEPT !.phase = IF status >= 200 /\ status <= 299
                                              THEN "headers" ELSE "done"]
        /\ lastOp' = Op("response", ~(status >= 200 /\ status <= 299))
        /\ UNCHANGED <<graph, coll, ops, inserted, store, clock, out>>

\* response.json() settles with the body (lines 303-353)
ResponseBody ==
    \E body \in NlpBodies :
        LET r == ProcessReply(body, calls.text, clock \div Day)
        IN /\ calls.pc = "reading"
           /\ calls' = IF r = JThrow
                       THEN [ReturnFallback(calls, "body") EXCEPT !.reply = body]
                       ELSE [calls EXCEPT !.pc = "returned", !.cause = "body",
                                          !.reply = body, !.result = Some(r)]
           /\ remote' = [remote EXCEPT !.phase = "done"]
           /\ lastOp' = Op("body", r = JThrow)
           /\ UNCHANGED <<graph, coll, ops, inserted, store, clock, out>>

NextNlp == AnalyzeCall \/ FetchFails \/ AbortTimer \/ ResponseHeaders \/ ResponseBody

SpecNlp == InitNlp /\ [][NextNlp]_vars

\* the body is a completion whose content is the JSON text of an object
\* with an items array
WellFormedReply(body) ==
    /\ body.k = "obj" /\ "choices" \in DOMAIN body.v
    /\ body.v["choices"].k = "arr" /\ Len(body.v["choices"].v) > 0
    /\ LET choice == body.v["choices"].v[1]
       IN /\ choice.k = "obj" /\ "message" \in DOMAIN choice.v
          /\ choice.v["message"].k = "obj"
          /\ "content" \in DOMAIN choice.v["message"].v
          /\ LET content == choice.v["message"].v["content"]
             IN /\ content.k = "str" /\ content.v \in DOMAIN JsonTexts
                /\ JsonTexts[content.v].k = "obj"
                /\ "items" \in DOMAIN JsonTexts[content.v].v
                /\ JsonTexts[content.v].v["items"].k = "arr"

\* the remote call of the returned call ended in one of the failures
RemoteCallFailed ==
    \/ calls.cause \in {"error", "abort", "status"}
    \/ calls.cause = "body" /\ ~WellFormedReply(calls.reply)

\* C15: analyzeUserInput never fails: without an API key it makes no remote
\* request and returns the keyword fallback; otherwise it makes exactly one
\* remote request and, if that request errors, is aborted by the timeout,
\* returns a non-OK status, or carries absent or malformed JSON (including
\* JSON without an items array), it returns the fallback analysis of the same
\* text, with at least one item, without retrying.
C15_FallbackOnFailure ==
    /\ remote.requests <= 1
    /\ ~calls.hasKey => remote.requests = 0
    /\ calls.pc = "returned" =>
          /\ calls.result # None
          /\ calls.hasKey => remote.requests = 1
          /\ (~calls.hasKey \/ RemoteCallFailed) =>
                /\ calls.result = Some(fallbackAnalysis(calls.text))
                /\ Len(calls.result[1].items) >= 1

\* a call whose one request was answered by JSON without an items array has
\* returned the two-item fallback analysis of its text
C15_Witness ==
    /\ calls.pc = "returned"
    /\ calls.hasKey
    /\ remote.requests = 1
    /\ calls.cause = "body"
    /\ calls.reply = Completion(JStr("noItems"))
    /\ calls.result = Some(fallbackAnalysis(calls.text))
    /\ Len(calls.result[1].items) = 2

\* the call is made and the abort timer, while armed, fires; the endpoint
\* is under no obligation to answer or to finish an answer
SpecNlpFair ==
    InitNlp /\ [][NextNlp]_vars /\ WF_vars(AnalyzeCall) /\ WF_vars(AbortTimer)

\* C16: every call of analyzeUserInput eventually returns, under fairness of
\* the abort timer, even when the endpoint never answers or stalls after
\* sending its response headers.
C16_EveryCallReturns == (calls.pc # "idle") ~> (calls.pc = "returned")

-----------------------------------------------------------------------------
(* Claims about cycles over notes whose embeddings differ in length        *)
(* (checked under SpecSugg)                                                *)

\* two notes of ns carry embeddings of different lengths
MismatchedEmbeddings(ns) ==
    \E i, j \in 1..Len(ns) :
        /\ ns[i].embedding # None /\ ns[j].embedding # None
        /\ Len(ns[i].embedding[1]) # Len(ns[j].embedding[1])

\* calculateCosineSimilarity raises on exactly the pairs of stored embeddings
\* that differ in length
RaisesOnLengthMismatch ==
    \A i, j \in 1..Len(coll) :
        (coll[i].embedding # None /\ coll[j].embedding # None) =>
            ((calculateCosineSimilarity(coll[i].embedding[1], coll[j].embedding[1])
                  = SimThrow)
             <=> Len(coll[i].embedding[1]) # Len(coll[j].embedding[1]))

\* a cycle over notes with mismatched embeddings raises and stores nothing
MismatchCycleStoresNothing ==
    (CycleStep /\ MismatchedEmbeddings(coll)) => (lastOp'.threw /\ store' = store)

\* a cycle that follows a cycle that raised runs the generator again, on the
\* notes and at the instant of its own start
CycleAfterRaisedCycleRuns ==
    (lastOp.op = "cycle" /\ lastOp.threw /\ CycleStep)
        => (out'.ran /\ out'.notes = coll /\ out'.now = clock)

\* C17: calculateCosineSimilarity raises exactly when its two vectors differ in
\* length; when two stored notes carry embeddings of different lengths, the
\* automation cycle that meets them is caught by its scheduler and leaves the
\* suggestion store unchanged, and later cycles still run.
C17_RaisedCycleIsCaught ==
    /\ []RaisesOnLengthMismatch
    /\ [][MismatchCycleStoresNothing]_vars
    /\ [][CycleAfterRaisedCycleRuns]_vars

\* a second or later step, after time has passed, was a cycle over
\* mismatched embeddings: it raised and the store is as empty as before
C17_Witness ==
    /\ lastOp.op = "cycle" /\ lastOp.threw
    /\ MismatchedEmbeddings(coll)
    /\ out.ran /\ out.threw /\ out.notes = coll /\ out.now > Now0
    /\ store = <<>>
    /\ ops >= 2

-----------------------------------------------------------------------------
(* Specification SpecStore: tabs that share the note store.  A mutation    *)
(* is two steps, the load (with the change made in memory) and the save;   *)
(* steps of different tabs interleave.                                     *)

\* mutant: the new note replaces the collection
addNoteAlone(ns, note) == <<note>>

\* addNote: notes.unshift(note) on the loaded collection
addNote(ns, note) == <<note>> \o ns

\* the notes the tabs add
StoreNotes ==
    { MkNote(<<"w1">>, Xyz, "info", Now0, None, None),
      MkNote(<<"w2">>, Xyz, "task", Now0, None, None),
      MkNote(<<"w3">>, Xyz, "idea", Now0, None, None) }

Tabs == {1, 2}

MaxStoreOps == 4

IdleTab == [pc |-> "idle", op |-> "none", notes |-> <<>>, id |-> MissingNoteId]

\* the ids of the notes of ns
IdsIn(ns) == {ns[i].id : i \in 1..Len(ns)}

InitStore ==
    /\ graph = EmptyGraph
    /\ coll = <<>>
    /\ ops = 0
    /\ inserted = {}
    /\ lastOp = Op("init", FALSE)
    /\ store = <<>>
    /\ clock = Now0
    /\ out = [added |-> {}, deleted |-> {}]
    /\ \E writers \in {{1}, Tabs} :
          calls = [writers |-> writers, tab |-> [t \in Tabs |-> IdleTab]]
    /\ remote = <<>>

\* a tab that is not in a mutation starts one: op is the mutation, id the
\* note it is about, loaded the collection it holds after its change
BeginMutation(t, op, id, loaded) ==
    /\ t \in calls.writers
    /\ calls.tab[t].pc = "idle"
    /\ ops < MaxStoreOps
    /\ calls' = [calls EXCEPT !.tab[t] =
                    [pc |-> "loaded", op |-> op, notes |-> loaded, id |-> id]]
    /\ ops' = ops + 1
    /\ lastOp' = Op(op, FALSE)
    /\ UNCHANGED <<graph, coll, inserted, store, clock, remote>>

\* addNote up to saveNotes: loadNotes and unshift
AddNoteLoad ==
    \E t \in Tabs, note \in StoreNotes :
        /\ note.id \notin IdsIn(coll) \cup out.added
        /\ \A u \in Tabs : ~(calls.tab[u].op = "addNote" /\ calls.tab[u].id = note.id)
        /\ BeginMutation(t, "addNote", note.id, addNote(coll, note))
        /\ UNCHANGED out

\* updateNote up to saveNotes
UpdateNoteLoad ==
    \E t \in Tabs, id \in IdsIn(coll) \cup {MissingNoteId}, u \in NoteUpdates :
        /\ BeginMutation(t, "updateNote", id, updateNote(coll, id, u, clock))
        /\ UNCHANGED out

\* deleteNote up to saveNotes
DeleteNoteLoad ==
    \E t \in Tabs, id \in IdsIn(coll) \cup {MissingNoteId} :
        /\ BeginMutation(t, "deleteNote", id, deleteNote(coll, id))
        /\ out' = [out EXCEPT !.deleted = @ \cup {id}]

\* saveNotes(notes) of the mutation in progress, which then returns.  An
\* updateNote that found no note returns without saving.
SaveNotes ==
    \E t \in Tabs :
        LET c == calls.tab[t]
        IN /\ c.pc = "loaded"
           /\ coll' = IF c.op = "updateNote" /\ c.id \notin IdsIn(c.notes)
                      THEN coll ELSE c.notes
           /\ out' = IF c.op = "addNote"
                     THEN [out EXCEPT !.added = @ \cup {c.id}] ELSE out
           /\ calls' = [calls EXCEPT !.tab[t] = IdleTab]
           /\ lastOp' = Op("saveNotes", FALSE)
           /\ UNCHANGED <<graph, ops, inserted, store, clock, remote>>

NextStore == AddNoteLoad \/ UpdateNoteLoad \/ DeleteNoteLoad \/ SaveNotes

SpecStore == InitStore /\ [][NextStore]_vars

\* the notes whose addNote has completed and that nobody deleted
AddedAndKept == out.added \ out.deleted

-----------------------------------------------------------------------------
(* Specification SpecMigrate: calls of migrateLocalNotesToSupabase         *)
(* (services/migrationService.ts) over the local storage entries "notes"   *)
(* and "nexmind_migrated_v1" and the remote table                          *)

\* the row migrateLocalNotesToSupabase inserts for a note (lines 49-69)
MigrationRow(note, userId) ==
    [id |-> note.id, user_id |-> userId, content |-> note.content,
     category |-> note.category, created_at |-> note.createdAt,
     updated_at |-> note.updatedAt, status |-> note.status,
     priority |-> note.priority, due_date |-> note.dueDate,
     entities |-> note.entities, embedding |-> note.embedding]

\* the local notes
LocalNotes ==
    { MkNote(<<"m1">>, Xyz, "info", Now0, None, None),
      MkNote(<<"m2">>, Xyz, "task", Now0, None, None) }

MaxLocalNotes == 2
MaxMigrateCalls == 2

\* the entry "notes": absent, not parseable, or an array of notes
LocalEntries ==
    {[kind |-> "absent", notes |-> <<>>], [kind |-> "corrupt", notes |-> <<>>]}
    \cup {[kind |-> "array", notes |-> l] : l \in NoteLists(LocalNotes, MaxLocalNotes)}

MigrateCalls == 1..MaxMigrateCalls

UserId == <<"u1">>

InitMigrate ==
    /\ graph = EmptyGraph
    /\ coll = <<>>
    /\ ops = 0
    /\ inserted = {}
    /\ lastOp = Op("init", FALSE)
    /\ clock = Now0
    /\ out = NoRun
    /\ \E entry \in LocalEntries : store = [notes |-> entry, migrated |-> FALSE]
    /\ calls = [c \in MigrateCalls |->
                   [pc |-> "idle", notes |-> <<>>, next |-> 0,
                    successCount |-> 0, errorCount |-> 0]]
    /\ remote = [inserts |-> <<>>, rows |-> {}]

\* the call sends the insert of its note at index i
SendInsert(i, notes) ==
    [remote EXCEPT !.inserts = Append(@, MigrationRow(notes[i], UserId))]

\* migrateLocalNotesToSupabase(userId) up to its first await (lines 8-49)
MigrateStart ==
    \E c \in MigrateCalls :
        /\ calls[c].pc = "idle"
        /\ IF store.migrated
           THEN /\ calls' = [calls EXCEPT ![c].pc = "done"]
                /\ UNCHANGED <<store, remote>>
           ELSE IF store.notes.kind # "array" \/ Len(store.notes.notes) = 0
           THEN /\ calls' = [calls EXCEPT ![c].pc = "done"]
                /\ store' = [store EXCEPT !.migrated = TRUE]
                /\ UNCHANGED remote
           ELSE /\ calls' = [calls EXCEPT ![c].pc = "awaiting",
                                          ![c].notes = store.notes.notes,
                                          ![c].next = 1]
                /\ remote' = SendInsert(1, store.notes.notes)
                /\ UNCHANGED store
        /\ lastOp' = Op("migrateLocalNotesToSupabase", FALSE)
        /\ UNCHANGED <<graph, coll, ops, inserted, clock, out>>

\* the insert awaited settles (lines 71-80), then the loop goes on: the next
\* insert is sent, or the flag is set and the call returns (lines 86-90)
InsertSettles ==
    \E c \in MigrateCalls, outcome \in {"ok", "error", "rejected"} :
        LET call == calls[c]
            id == call.notes[call.next].id
            counted == IF outcome = "ok"
                       THEN [call EXCEPT !.successCount = @ + 1]
                       ELSE [call EXCEPT !.errorCount = @ + 1]
        IN /\ call.pc = "awaiting"
           /\ IF call.next < Len(call.notes)
              THEN /\ calls' = [calls EXCEPT ![c] = [counted EXCEPT !.next = @ + 1]]
                   /\ remote' = [SendInsert(call.next + 1, call.notes)
                                    EXCEPT !.rows = IF outcome = "ok"
                                                    THEN @ \cup {id} ELSE @]
                   /\ UNCHANGED store
              ELSE /\ calls' = [calls EXCEPT ![c] = [counted EXCEPT !.pc = "done"]]
                   /\ remote' = [remote EXCEPT !.rows = IF outcome = "ok"
                                                        THEN @ \cup {id} ELSE @]
                   /\ store' = [store EXCEPT !.migrated = TRUE]
           /\ lastOp' = Op("insert", outcome # "ok")
           /\ UNCHANGED <<graph, coll, ops, inserted, clock, out>>

NextMigrate == MigrateStart \/ InsertSettles

SpecMigrate == InitMigrate /\ [][NextMigrate]_vars

\* the inserts sent for the note with the given id
InsertsOf(id) == {k \in 1..Len(remote.inserts) : remote.inserts[k].id = id}

\* C19: over any number of calls of migrateLocalNotesToSupabase, overlapping
\* ones included, each local note is sent to the remote table in at most one
\* insert.
C19_AtMostOneInsert ==
    \A n \in LocalNotes : Cardinality(InsertsOf(n.id)) <= 1

-----------------------------------------------------------------------------
(* Specification SpecRepo: the narrow-schema repository                    *)
(* (services/notesRepository.ts): notes are written with addNoteToSupabase *)
(* and read back with fetchNotesFromSupabase                               *)

\* a column of a table row: null, or a value
DbNull == [null |-> TRUE]
DbValue(x) == [null |-> FALSE, v |-> x]

\* x ?? null
ToColumn(opt) == IF opt = None THEN DbNull ELSE DbValue(opt[1])

\* x ?? undefined
FromColumn(col) == IF col.null THEN None ELSE Some(col.v)

\* mutant: the status is not written
PayloadWithoutStatus(userId, note) ==
    [user_id |-> userId, content |-> note.content, type |-> note.category,
     status |-> DbNull, priority |-> ToColumn(note.priority)]

\* the payload addNoteToSupabase inserts (lines 99-105)
PayloadOf(userId, note) ==
    [user_id |-> userId, content |-> note.content, type |-> note.category,
     status |-> ToColumn(note.status), priority |-> ToColumn(note.priority)]

\* the note fetchNotesFromSupabase builds from a row at instant now
\* (lines 54-69)
NoteOfRow(row, now) ==
    [id |-> row.id, content |-> row.content, category |-> row.type,
     status |-> FromColumn(row.status), priority |-> FromColumn(row.priority),
     createdAt |-> now,
     updatedAt |-> None, entities |-> None, embedding |-> None,
     categoryConfidence |-> None, categoryReason |-> None,
     relatedNoteIds |-> None, dueDate |-> None]

\* a note with the fields of the AI metadata
WithMetadata(note, confidence, reason, related) ==
    Spread(note, [categoryConfidence |-> confidence, categoryReason |-> reason,
                  relatedNoteIds |-> related])

\* s1 carries every optional field, s2 none; s3 was created at Now0; s4 has
\* no content
RepoNotes ==
    { WithMetadata(
          [MkNote(<<"s1">>, Xyz, "task", Now0 - Day,
                  Entities(<<LMaria>>, <<>>, <<>>, <<TopicA>>), Some(<<1, 0>>))
              EXCEPT !.status = Some("in_progress"), !.priority = Some("high"),
                     !.dueDate = Some(199), !.updatedAt = Some(Now0 - 1)],
          Some(90), Some(<<"r">>), Some(<<<<"s2">>>>)),
      WithMetadata(MkNote(<<"s2">>, Xyz, "info", Now0 - Day, None, None),
                   None, None, None),
      WithMetadata([MkNote(<<"s3">>, <<"x">>, "task", Now0, None, None)
                       EXCEPT !.status = Some("done")],
                   Some(50), None, None),
      WithMetadata(MkNote(<<"s4">>, <<>>, "idea", Now0 - Day, None, None),
                   None, None, None) }

\* the user ids the repository is called with; the empty one is rejected
RepoUsers == {<<"u1">>, <<"u2">>, <<>>}

\* the ids the table gives its rows, in order of insertion
RowId(n) == <<"row", n>>

MaxRepoOps == 3

InitRepo ==
    /\ graph = EmptyGraph
    /\ coll = <<>>
    /\ ops = 0
    /\ inserted = {}
    /\ lastOp = Op("init", FALSE)
    /\ store = <<>>
    /\ clock = Now0
    /\ out = [written |-> <<>>, fetched |-> FALSE, fetchedAt |-> 0]
    /\ calls = <<>>
    /\ remote = <<>>

\* addNoteToSupabase(userId, note): ok tells whether the insert succeeds
AddNoteToSupabaseOp ==
    \E userId \in RepoUsers, note \in RepoNotes, ok \in BOOLEAN :
        LET valid == note.content # <<>> /\ note.category # "" /\ userId # <<>>
            row == Spread(PayloadOf(userId, note), [id |-> RowId(Len(remote) + 1)])
        IN /\ ops < MaxRepoOps
           /\ remote' = IF valid /\ ok THEN Append(remote, row) ELSE remote
           /\ out' = IF valid /\ ok
                     THEN [out EXCEPT !.written =
                              Append(@, [note |-> note, row |-> row.id])]
                     ELSE out
           /\ ops' = ops + 1
           /\ lastOp' = Op("addNoteToSupabase", ~(valid /\ ok))
           /\ UNCHANGED <<graph, coll, inserted, store, clock, calls>>

\* the rows of the user, by descending id
RowsOf(userId) ==
    LET mine == FilterIdx(remote, {i \in 1..Len(remote) :
                                      remote[i].user_id = userId}, 1)
    IN [i \in 1..Len(mine) |-> mine[Len(mine) + 1 - i]]

\* fetchNotesFromSupabase(userId): ok tells whether the select succeeds
FetchNotesFromSupabaseOp ==
    \E userId \in RepoUsers, ok \in BOOLEAN :
        LET rows == RowsOf(userId)
        IN /\ ops < MaxRepoOps
           /\ coll' = IF ok THEN [i \in 1..Len(rows) |-> NoteOfRow(rows[i], clock)]
                      ELSE <<>>
           /\ out' = [out EXCEPT !.fetched = TRUE, !.fetchedAt = clock]
           /\ ops' = ops + 1
           /\ lastOp' = Op("fetchNotesFromSupabase", ~ok)
           /\ UNCHANGED <<graph, inserted, store, clock, calls, remote>>

RepoTick ==
    /\ ops < MaxRepoOps
    /\ clock' = clock + 1
    /\ ops' = ops + 1
    /\ lastOp' = Op("tick", FALSE)
    /\ UNCHANGED <<graph, coll, inserted, store, out, calls, remote>>

NextRepo == AddNoteToSupabaseOp \/ FetchNotesFromSupabaseOp \/ RepoTick

SpecRepo == InitRepo /\ [][NextRepo]_vars

\* the note written as the k-th successful write came back as the i-th note
\* of the last fetch
ReadBack(k, i) == out.fetched /\ coll[i].id = out.written[k].row

\* C20: with the narrow-schema repository, a note written with
\* addNoteToSupabase and read back with fetchNotesFromSupabase keeps its
\* content, category, status and priority, loses createdAt, entities,
\* embedding, categoryConfidence and categoryReason, and keeps no other field.
C20_RoundTrip ==
    \A k \in 1..Len(out.written), i \in 1..Len(coll) :
        ReadBack(k, i) =>
            LET note == out.written[k].note
                back == coll[i]
            IN /\ back.content = note.content
               /\ back.category = note.category
               /\ back.status = note.status
               /\ back.priority = note.priority
               /\ back.createdAt = out.fetchedAt
               /\ back.entities = None
               /\ back.embedding = None
               /\ back.categoryConfidence = None
               /\ back.categoryReason = None
               /\ back.id # note.id
               /\ back.updatedAt = None
               /\ back.dueDate = None
               /\ back.relatedNoteIds = None

\* the note carrying every optional field was written and read back at a
\* later instant than its creation
C20_Witness ==
    \E k \in 1..Len(out.written), i \in 1..Len(coll) :
        /\ ReadBack(k, i)
        /\ out.written[k].note.id = <<"s1">>
        /\ coll[i].status = Some("in_progress")
        /\ coll[i].createdAt # out.written[k].note.createdAt

-----------------------------------------------------------------------------
(* Specification SpecDate: parseRelativeDate (services/nlpPipeline.ts) on  *)
(* date expressions, at an instant of a browser in some time zone.         *)
(* An instant is a number of hours since 1970-01-01T00:00Z; "ae" and "ue"  *)
(* stand for the umlauts.                                                  *)

\* String.prototype.toLowerCase
ToLowerCase(s) == [i \in 1..Len(s) |-> LowerChar(s[i])]

\* String.prototype.includes
Includes(s, w) ==
    \E i \in 1..(Len(s) - Len(w) + 1) : SubSeq(s, i, i + Len(w) - 1) = w

DigitChars == <<"0", "1", "2", "3", "4", "5", "6", "7", "8", "9">>

IsDigit(c) == \E d \in 1..10 : DigitChars[d] = c

DigitValue(c) == (CHOOSE d \in 1..10 : DigitChars[d] = c) - 1

RECURSIVE ParseInt(_, _)
\* parseInt on a run of digits, acc being the value read so far
ParseInt(s, acc) ==
    IF s = <<>> THEN acc ELSE ParseInt(Tail(s), 10 * acc + DigitValue(Head(s)))

\* the length of the run of digits of s that starts at position i
DigitRun(s, i) ==
    IF i > Len(s) \/ ~IsDigit(s[i]) THEN 0
    ELSE CHOOSE n \in 1..(Len(s) - i + 1) :
            /\ \A j \in i..(i + n - 1) : IsDigit(s[j])
            /\ (i + n > Len(s) \/ ~IsDigit(s[i + n]))

\* whether /in (\d+) <unit>/ matches s at position i
InMatchAt(s, i, unit) ==
    LET n == DigitRun(s, i + 3)
        after == i + 3 + n
    IN /\ i + 2 <= Len(s)
       /\ SubSeq(s, i, i + 2) = <<"i", "n", " ">>
       /\ n >= 1
       /\ after + Len(unit) <= Len(s)
       /\ s[after] = " "
       /\ SubSeq(s, after + 1, after + Len(unit)) = unit

\* expr.match(/in (\d+) <unit>/): None, or the number of the first match
InMatch(s, unit) ==
    LET at == {i \in 1..Len(s) : InMatchAt(s, i, unit)}
    IN IF at = {} THEN None
       ELSE LET i == CHOOSE a \in at : \A b \in at : a <= b
            IN Some(ParseInt(SubSeq(s, i + 3, i + 2 + DigitRun(s, i + 3)), 0))

\* /^\d{4}-\d{2}-\d{2}$/.test(s)
IsIsoDate(s) ==
    /\ Len(s) = 10
    /\ \A i \in {1, 2, 3, 4, 6, 7, 9, 10} : IsDigit(s[i])
    /\ s[5] = "-"
    /\ s[8] = "-"

\* the digits of n on the given width, zero padded
RECURSIVE PadDigits(_, _)
PadDigits(n, width) ==
    IF width = 0 THEN <<>>
    ELSE Append(PadDigits(n \div 10, width - 1), DigitChars[(n % 10) + 1])

\* the civil date of day number z (days since 1970-01-01), proleptic
\* Gregorian calendar, as Date computes its UTC fields
CivilFromDays(z) ==
    LET z1 == z + 719468
        era == z1 \div 146097
        doe == z1 - era * 146097
        yoe == (doe - doe \div 1460 + doe \div 36524 - doe \div 146096) \div 365
        doy == doe - (365 * yoe + yoe \div 4 - yoe \div 100)
        mp == (5 * doy + 2) \div 153
        d == doy - (153 * mp + 2) \div 5 + 1
        m == IF mp < 10 THEN mp + 3 ELSE mp - 9
    IN [year |-> yoe + era * 400 + (IF m <= 2 THEN 1 ELSE 0),
        month |-> m, day |-> d]

\* YYYY-MM-DD of a day number
FormatDay(z) ==
    LET c == CivilFromDays(z)
    IN PadDigits(c.year, 4) \o <<"-">> \o PadDigits(c.month, 2)
           \o <<"-">> \o PadDigits(c.day, 2)

\* date.toISOString().split('T')[0]: the UTC calendar date of the instant
IsoDateOf(instant) == FormatDay(instant \div Day)

\* the calendar day of the instant on the clock of the browser, whose local
\* time is UTC plus offset hours
LocalDay(instant, offset) == (instant + offset) \div Day

\* 1970-01-01 was a Thursday
EpochWeekday == 4

\* date.getDay(): the weekday of the local calendar day, Sunday being 0
GetDay(instant, offset) == (LocalDay(instant, offset) + EpochWeekday) % 7

\* date.setDate(date.getDate() + days): the same local time, days later
SetDatePlus(instant, days) == instant + days * Day

Heute == <<"h", "e", "u", "t", "e">>
Morgen == <<"m", "o", "r", "g", "e", "n">>
Uebermorgen == <<"ue", "b", "e", "r">> \o Morgen
Today == <<"t", "o", "d", "a", "y">>
Tomorrow == <<"t", "o", "m", "o", "r", "r", "o", "w">>
DayAfterTomorrow ==
    <<"d", "a", "y", " ", "a", "f", "t", "e", "r", " ">> \o Tomorrow
Tag == <<"t", "a", "g">>
Woche == <<"w", "o", "c", "h", "e">>
NaechsteWoche == <<"n", "ae", "c", "h", "s", "t", "e", " ">> \o Woche
NextWeek == <<"n", "e", "x", "t", " ", "w", "e", "e", "k">>

\* the array weekdays (line 96)
weekdays ==
    << <<"s", "o", "n", "n">> \o Tag,
       <<"m", "o", "n">> \o Tag,
       <<"d", "i", "e", "n", "s">> \o Tag,
       <<"m", "i", "t", "t", "w", "o", "c", "h">>,
       <<"d", "o", "n", "n", "e", "r", "s">> \o Tag,
       <<"f", "r", "e", "i">> \o Tag,
       <<"s", "a", "m", "s">> \o Tag >>

\* parseRelativeDate(dateExpression) evaluated at the instant now in a
\* browser whose local time is UTC plus offset hours
parseRelativeDateAt(dateExpression, now, offset) ==
    IF ~Truthy(dateExpression) THEN JNull
    ELSE
      LET expr == Trim(ToLowerCase(dateExpression.v))
          currentDay == GetDay(now, offset)
          named == {i \in 1..7 : Includes(expr, weekdays[i])}
          inDaysMatch == InMatch(expr, Tag)
          inWeeksMatch == InMatch(expr, Woche)
      IN IF expr = Heute \/ expr = Today THEN JText(IsoDateOf(now))
         ELSE IF expr = Morgen \/ expr = Tomorrow
              THEN JText(IsoDateOf(SetDatePlus(now, 1)))
         ELSE IF expr = Uebermorgen \/ expr = DayAfterTomorrow
              THEN JText(IsoDateOf(SetDatePlus(now, 2)))
         ELSE IF named # {}
              THEN LET i == (CHOOSE a \in named : \A b \in named : a <= b) - 1
                       daysUntil == IF i - currentDay <= 0
                                    THEN i - currentDay + 7
                                    ELSE i - currentDay
                   IN JText(IsoDateOf(SetDatePlus(now, daysUntil)))
         ELSE IF Includes(expr, NaechsteWoche) \/ expr = NextWeek
              THEN LET r == (8 - currentDay) % 7
                       daysUntilNextMonday == IF r = 0 THEN 7 ELSE r
                   IN JText(IsoDateOf(SetDatePlus(now, daysUntilNextMonday)))
         ELSE IF inDaysMatch # None
              THEN JText(IsoDateOf(SetDatePlus(now, inDaysMatch[1])))
         ELSE IF inWeeksMatch # None
              THEN JText(IsoDateOf(SetDatePlus(now, inWeeksMatch[1] * 7)))
         ELSE IF IsIsoDate(expr) THEN JText(expr)
         ELSE JNull

\* the hours by which local time is ahead of UTC in the browsers of the
\* model: New York in winter, Greenwich, Berlin in summer
TimeZoneOffsets == {-5, 0, 2}

\* the hours of the UTC day at which the model starts
StartHours == {0, 3, 12, 21, 23}

InFreitag == <<"a", "m", " ">> \o weekdays[6]
InDreiTagen == <<"i", "n", " ", "3", " ">> \o Tag \o <<"e", "n">>
InZwoelfTagen == <<"i", "n", " ", "1", "2", " ">> \o Tag \o <<"e", "n">>
InZweiWochen == <<"i", "n", " ", "2", " ">> \o Woche \o <<"n">>
IsoExpr == <<"1", "9", "7", "0", "-", "0", "8", "-", "0", "1">>
NotADate == <<"n", "o", "t", "-", "a", "-", "d", "a", "t", "e">>
MorgenFrueh == Morgen \o <<" ", "f", "r", "ue", "h">>

\* expressions parseRelativeDate does not recognize
UnrecognizedExprs == {NotADate, MorgenFrueh, <<>>, <<"i", "n", " ">> \o Tag \o <<"e", "n">>}

\* the arguments of the calls of the model
DateExprs ==
    {JNull}
      \cup {JText(e) : e \in
              {Heute, Morgen, Uebermorgen, <<"H">> \o Tail(Heute),
               <<" ">> \o Morgen \o <<" ">>, Tomorrow,
               InFreitag, <<"F">> \o Tail(weekdays[6]), NaechsteWoche, NextWeek,
               InDreiTagen, InZwoelfTagen, InZweiWochen, IsoExpr}
              \cup {weekdays[i] : i \in 1..7} \cup UnrecognizedExprs}

MaxDateOps == 2

InitDate ==
    /\ graph = EmptyGraph
    /\ coll = <<>>
    /\ ops = 0
    /\ inserted = {}
    /\ lastOp = Op("init", FALSE)
    /\ store = <<>>
    /\ \E d \in 0..6, h \in StartHours : clock = Now0 + d * Day + h
    /\ out = [ran |-> FALSE, expr |-> JNull, result |-> JNull, now |-> 0]
    /\ \E offset \in TimeZoneOffsets : calls = [offset |-> offset]
    /\ remote = <<>>

\* one call parseRelativeDate(expr)
ParseRelativeDateOp ==
    \E expr \in DateExprs :
        /\ ops < MaxDateOps
        /\ out' = [ran |-> TRUE, expr |-> expr, now |-> clock,
                   result |-> parseRelativeDateAt(expr, clock, calls.offset)]
        /\ ops' = ops + 1
        /\ lastOp' = Op("parseRelativeDate", FALSE)
        /\ UNCHANGED <<graph, coll, inserted, store, clock, calls, remote>>

\* an hour passes
DateTick ==
    /\ ops < MaxDateOps
    /\ clock' = clock + 1
    /\ ops' = ops + 1
    /\ lastOp' = Op("tick", FALSE)
    /\ UNCHANGED <<graph, coll, inserted, store, out, calls, remote>>

NextDate == ParseRelativeDateOp \/ DateTick

SpecDate == InitDate /\ [][NextDate]_vars

\* the calendar day on which the call was evaluated, in the browser
EvaluationDay == LocalDay(out.now, calls.offset)

\* the call of the last step had the argument e
Parsed(e) == out.ran /\ out.expr = JText(e)

\* the call returned the date of the given day in YYYY-MM-DD form
ReturnedDay(z) == out.result = JText(FormatDay(z))

\* C21: parseRelativeDate maps "heute", "morgen" and "uebermorgen" to the
\* calendar date 0, 1 and 2 days after the day of evaluation in YYYY-MM-DD
\* form, returns a string already in YYYY-MM-DD form unchanged, and returns
\* null for null input and for every expression it does not recognize.
C21_RelativeDays ==
    /\ Parsed(Heute) => ReturnedDay(EvaluationDay)
    /\ Parsed(Morgen) => ReturnedDay(EvaluationDay + 1)
    /\ Parsed(Uebermorgen) => ReturnedDay(EvaluationDay + 2)
    /\ Parsed(IsoExpr) => out.result = out.expr
    /\ out.ran /\ out.expr = JNull => out.result = JNull
    /\ \A e \in UnrecognizedExprs : Parsed(e) => out.result = JNull

\* the weekday of a day number, Sunday being 0
WeekdayOf(z) == (z + EpochWeekday) % 7

\* the first day strictly after z that falls on weekday w
NextOccurrence(z, w) ==
    CHOOSE d \in (z + 1)..(z + 7) : WeekdayOf(d) = w

\* C25: for an expression naming a weekday parseRelativeDate returns the
\* next occurrence of that weekday strictly after the day of evaluation; for
\* "naechste woche" the first Monday strictly after it; for "in N tagen" and
\* "in N wochen" the day N and 7 N days ahead.
C25_WeekdaysAndOffsets ==
    /\ \A i \in 1..7 :
          Parsed(weekdays[i]) => ReturnedDay(NextOccurrence(EvaluationDay, i - 1))
    /\ Parsed(InFreitag) => ReturnedDay(NextOccurrence(EvaluationDay, 5))
    /\ Parsed(NaechsteWoche) => ReturnedDay(NextOccurrence(EvaluationDay, 1))
    /\ Parsed(InDreiTagen) => ReturnedDay(EvaluationDay + 3)
    /\ Parsed(InZwoelfTagen) => ReturnedDay(EvaluationDay + 12)
    /\ Parsed(InZweiWochen) => ReturnedDay(EvaluationDay + 14)

-----------------------------------------------------------------------------
(* Specification SpecCluster: findNoteClusters (services/embeddings.ts)    *)

\* mutant: every unassigned note joins the cluster
JoinsAlways(similarity, similarityThreshold) == TRUE

\* similarity >= similarityThreshold
JoinsCluster(similarity, similarityThreshold) ==
    GE(similarity, similarityThreshold)

RECURSIVE ClusterInner(_, _, _, _, _, _)
\* the inner forEach of findNoteClusters from index j on: the cluster of the
\* seed note and the assigned ids, or threw when a comparison raises
ClusterInner(ns, note, j, assigned, cluster, similarityThreshold) ==
    IF j > Len(ns)
    THEN [threw |-> FALSE, assigned |-> assigned, cluster |-> cluster]
    ELSE IF ns[j].id \in assigned
         THEN ClusterInner(ns, note, j + 1, assigned, cluster, similarityThreshold)
    ELSE LET similarity ==
                 calculateCosineSimilarity(note.embedding[1], ns[j].embedding[1])
         IN IF similarity = SimThrow
            THEN [threw |-> TRUE, assigned |-> assigned, cluster |-> cluster]
            ELSE IF JoinsCluster(similarity, similarityThreshold)
                 THEN ClusterInner(ns, note, j + 1, assigned \cup {ns[j].id},
                                   Append(cluster, ns[j]), similarityThreshold)
                 ELSE ClusterInner(ns, note, j + 1, assigned, cluster,
                                   similarityThreshold)

RECURSIVE ClusterOuter(_, _, _, _, _)
\* the outer forEach of findNoteClusters from index i on
ClusterOuter(ns, i, assigned, clusters, similarityThreshold) ==
    IF i > Len(ns) THEN [threw |-> FALSE, clusters |-> clusters]
    ELSE IF ns[i].id \in assigned
         THEN ClusterOuter(ns, i + 1, assigned, clusters, similarityThreshold)
    ELSE LET r == ClusterInner(ns, ns[i], 1, assigned \cup {ns[i].id},
                               <<ns[i]>>, similarityThreshold)
         IN IF r.threw THEN [threw |-> TRUE, clusters |-> <<>>]
            ELSE ClusterOuter(ns, i + 1, r.assigned,
                              IF Len(r.cluster) > 1
                              THEN Append(clusters, r.cluster) ELSE clusters,
                              similarityThreshold)

\* findNoteClusters(notes, similarityThreshold): the clusters, or threw
findNoteClusters(notes, similarityThreshold) ==
    LET notesWithEmbeddings ==
            FilterIdx(notes, {i \in 1..Len(notes) : notes[i].embedding # None}, 1)
    IN ClusterOuter(notesWithEmbeddings, 1, {}, <<>>, similarityThreshold)

\* the default of similarityThreshold, in hundredths
DefaultClusterThreshold == 70

\* the thresholds of the calls of the model, in hundredths
ClusterThresholds == {DefaultClusterThreshold, 60, 100}

\* v1 and v2 are equal; v8 is within 0.7 of v1 and of v3, v3 is within 0.7
\* of v4 and v8 but not of v1; v5 has no embedding, v6 one of another length,
\* v7 the zero vector
ClusterNotes ==
    { MkNote(<<"v1">>, Xyz, "info", Now0 - Day, None, Some(<<1, 0>>)),
      MkNote(<<"v2">>, Xyz, "info", Now0 - Day, None, Some(<<1, 0>>)),
      MkNote(<<"v3">>, Xyz, "info", Now0 - Day, None, Some(<<3, 4>>)),
      MkNote(<<"v4">>, Xyz, "info", Now0 - Day, None, Some(<<0, 1>>)),
      MkNote(<<"v5">>, Xyz, "info", Now0 - Day, None, None),
      MkNote(<<"v6">>, Xyz, "info", Now0 - Day, None, Some(<<1>>)),
      MkNote(<<"v7">>, Xyz, "info", Now0 - Day, None, Some(<<0, 0>>)),
      MkNote(<<"v8">>, Xyz, "info", Now0 - Day, None, Some(<<4, 3>>)) }

MaxClusterNotes == 4

NoClusterRun == [ran |-> FALSE, notes |-> <<>>, threshold |-> <<0, 1>>,
                 threw |-> FALSE, clusters |-> <<>>]

InitCluster ==
    /\ graph = EmptyGraph
    /\ coll \in NoteLists(ClusterNotes, MaxClusterNotes)
    /\ ops = 0
    /\ inserted = {}
    /\ lastOp = Op("init", FALSE)
    /\ store = <<>>
    /\ clock = Now0
    /\ out = NoClusterRun
    /\ calls = <<>>
    /\ remote = <<>>

\* one call findNoteClusters(notes, threshold) on the stored notes
FindNoteClustersOp ==
    \E h \in ClusterThresholds :
        LET r == findNoteClusters(coll, Hundredths(h))
        IN /\ out' = [ran |-> TRUE, notes |-> coll, threshold |-> Hundredths(h),
                      threw |-> r.threw, clusters |-> r.clusters]
           /\ lastOp' = Op("findNoteClusters", r.threw)
           /\ UNCHANGED <<graph, coll, ops, inserted, store, clock, calls, remote>>

NextCluster == FindNoteClustersOp

SpecCluster == InitCluster /\ [][NextCluster]_vars

\* the members of all returned clusters as (cluster, position) pairs
ClusterSlots ==
    {<<k, p>> \in (1..Len(out.clusters)) \X (1..MaxClusterNotes) :
        p <= Len(out.clusters[k])}

\* whether a and b are within the threshold of the run
WithinThreshold(a, b) ==
    GE(calculateCosineSimilarity(a.embedding[1], b.embedding[1]), out.threshold)

\* the indices of the notes of the run that seeded a cluster, kept or not:
\* the notes with an embedding that joined no cluster as a later member
SeedIdx ==
    {i \in 1..Len(out.notes) :
        /\ out.notes[i].embedding # None
        /\ ~ \E s \in ClusterSlots :
               s[2] > 1 /\ out.clusters[s[1]][s[2]].id = out.notes[i].id}

\* C22: findNoteClusters returns pairwise disjoint clusters of at least two
\* notes each, taken only from the notes that have an embedding; every member
\* other than the first (the seed) is within the threshold of that seed, and
\* a note within the threshold of an earlier seed is never itself a seed.
C22_Clusters ==
    out.ran /\ ~out.threw =>
        /\ \A k \in 1..Len(out.clusters) : Len(out.clusters[k]) >= 2
        /\ \A s \in ClusterSlots :
              LET m == out.clusters[s[1]][s[2]]
              IN /\ m.embedding # None
                 /\ \E i \in 1..Len(out.notes) : out.notes[i] = m
                 /\ s[2] > 1 => WithinThreshold(out.clusters[s[1]][1], m)
        /\ \A s, t \in ClusterSlots :
              s # t => out.clusters[s[1]][s[2]].id # out.clusters[t[1]][t[2]].id
        /\ \A i, j \in SeedIdx :
              i < j => ~WithinThreshold(out.notes[i], out.notes[j])

\* two clusters were returned, and a member of the first is within the
\* threshold of the seed of the second
C22_Witness ==
    /\ out.ran /\ ~out.threw
    /\ Len(out.clusters) = 2
    /\ \E p \in 2..Len(out.clusters[1]) :
          WithinThreshold(out.clusters[2][1], out.clusters[1][p])

-----------------------------------------------------------------------------
(* Specification SpecEmbed: generateEmbedding (services/ai.ts)             *)

RECURSIVE SplitWs(_, _, _, _)
\* s.split(/\s+/) from position i on, cur being the part collected so far
\* and inRun telling that the previous character was whitespace
SplitWs(s, i, cur, inRun) ==
    IF i > Len(s) THEN <<cur>>
    ELSE IF s[i] \in Whitespace
         THEN IF inRun THEN SplitWs(s, i + 1, cur, TRUE)
              ELSE <<cur>> \o SplitWs(s, i + 1, <<>>, TRUE)
         ELSE SplitWs(s, i + 1, Append(cur, s[i]), FALSE)

HalfWord == 65536

\* ToInt32 of the number hi * 65536 + lo: its value modulo 2^32 as a signed
\* 32-bit integer
ToInt32(hi, lo) ==
    LET l == lo % HalfWord
        h == (hi + ((lo - l) \div HalfWord)) % HalfWord
    IN (IF h >= HalfWord \div 2 THEN h - HalfWord ELSE h) * HalfWord + l

\* hash = ((hash << 5) - hash) + code; hash = hash & hash
HashStep(hash, code) ==
    LET hi == hash \div HalfWord
        lo == hash % HalfWord
        shifted == ToInt32(32 * hi, 32 * lo)
    IN ToInt32((shifted \div HalfWord) - hi, (shifted % HalfWord) - lo + code)

RECURSIVE HashOf(_, _)
\* the hash of a word, hash being the value after the characters read so far
HashOf(word, hash) ==
    IF word = <<>> THEN hash
    ELSE HashOf(Tail(word), HashStep(hash, CharCode(Head(word))))

\* Math.abs(hash) % length
PositionOf(hash, length) ==
    IF hash >= 0 THEN hash % length ELSE (((-(hash + 1)) % length) + 1) % length

EmbeddingLength == 128

RECURSIVE LcmUpTo(_)
\* the least common multiple of 1..n
LcmUpTo(n) ==
    IF n <= 1 THEN 1
    ELSE LET m == LcmUpTo(n - 1) IN (m * n) \div Gcd(m, n)

RECURSIVE AddWords(_, _, _, _)
\* words.forEach from index i (counted from 1) on: vector holds numerators
\* over the denominator scale, indexed from 1; a position outside the array
\* leaves the array as it is
AddWords(words, i, vector, scale) ==
    IF i > Len(words) THEN vector
    ELSE LET position == PositionOf(HashOf(words[i], 0), EmbeddingLength)
             next == IF position + 1 \in DOMAIN vector
                     THEN [vector EXCEPT ![position + 1] = @ + (scale \div i)]
                     ELSE vector
         IN IF Len(next) = EmbeddingLength
            THEN AddWords(words, i + 1, next, scale)
            ELSE next

RECURSIVE SumSquares(_, _, _)
\* vector.reduce((sum, val) => sum + val * val, 0) over the slots a..b, by
\* halves
SumSquares(v, a, b) ==
    IF a = b THEN v[a] * v[a]
    ELSE LET mid == (a + b) \div 2
         IN SumSquares(v, a, mid) + SumSquares(v, mid + 1, b)

\* generateEmbedding(text): the words, the vector before normalization as
\* numerators over scale, and the returned vector, each component v/magnitude
\* given by its square
generateEmbedding(text) ==
    LET words == SplitWs(ToLowerCase(text), 1, <<>>, FALSE)
        scale == LcmUpTo(Len(words))
        vector == AddWords(words, 1, [p \in 1..EmbeddingLength |-> 0], scale)
        magnitude2 == SumSquares(vector, 1, EmbeddingLength)
    IN [words |-> words, scale |-> scale, vector |-> vector,
        normalized |-> IF magnitude2 > 0
                       THEN [p \in 1..EmbeddingLength |->
                                Frac(vector[p] * vector[p], magnitude2)]
                       ELSE [p \in 1..EmbeddingLength |-> <<0, 1>>]]

\* "xfjfxtf" hashes to -2^31, "mmmmmm" and "bbbbbb" to other negative
\* numbers; "abba" and "mmmmmm" share slot 32
EmbedWords ==
    { <<"a">>, <<"a", "b">>, <<"a", "b", "b", "a">>, <<"M", "a">>,
      <<"m", "m", "m", "m", "m", "m">>, <<"b", "b", "b", "b", "b", "b">>,
      <<"x", "f", "j", "f", "x", "t", "f">> }

MaxEmbedWords == 3

RECURSIVE JoinedTexts(_)
\* the texts of at most n words, separated by one blank
JoinedTexts(n) ==
    IF n = 1 THEN EmbedWords
    ELSE LET shorter == JoinedTexts(n - 1)
         IN shorter \cup {t \o <<" ">> \o w : t \in shorter, w \in EmbedWords}

\* the texts of the calls: the empty text, blanks only, leading, trailing and
\* repeated whitespace, and the joined words
EmbedTexts ==
    {<<>>, <<" ">>, <<" ", "a">>, <<"a", " ">>, <<"a", " ", "\t", "a", "b">>}
        \cup JoinedTexts(MaxEmbedWords)

NoEmbedding == [ran |-> FALSE, text |-> <<>>, words |-> <<>>, scale |-> 1,
                vector |-> <<>>, normalized |-> <<>>]

InitEmbed ==
    /\ graph = EmptyGraph
    /\ coll = <<>>
    /\ ops = 0
    /\ inserted = {}
    /\ lastOp = Op("init", FALSE)
    /\ store = <<>>
    /\ clock = Now0
    /\ out = NoEmbedding
    /\ \E text \in EmbedTexts : calls = [text |-> text]
    /\ remote = <<>>

\* the call generateEmbedding(text) on the text of the state
GenerateEmbeddingOp ==
    LET r == generateEmbedding(calls.text)
    IN /\ ~out.ran
       /\ out' = [ran |-> TRUE, text |-> calls.text, words |-> r.words,
                  scale |-> r.scale, vector |-> r.vector,
                  normalized |-> r.normalized]
       /\ lastOp' = Op("generateEmbedding", FALSE)
       /\ UNCHANGED <<graph, coll, ops, inserted, store, clock, calls, remote>>

NextEmbed == GenerateEmbeddingOp

SpecEmbed == InitEmbed /\ [][NextEmbed]_vars

\* the slot of the i-th word of the run (words counted from 1)
SlotOfWord(i) == PositionOf(HashOf(out.words[i], 0), EmbeddingLength)

\* the sum of scale/i over the words i of the set
RECURSIVE Contributions(_)
Contributions(idx) ==
    IF idx = {} THEN 0
    ELSE LET i == CHOOSE x \in idx : TRUE
         IN (out.scale \div i) + Contributions(idx \ {i})

\* every slot holds what the words hashed to it added
EachWordAddsItsShare ==
    /\ Len(out.vector) = EmbeddingLength
    /\ \A i \in 1..Len(out.words) : SlotOfWord(i) \in 0..(EmbeddingLength - 1)
    /\ \A p \in 0..(EmbeddingLength - 1) :
          out.vector[p + 1] =
              Contributions({i \in 1..Len(out.words) : SlotOfWord(i) = p})

\* C23: generateEmbedding returns the all-zero 128-dimension vector when the
\* text is empty; for every non-empty text each word adds 1/(1+position) to
\* the slot given by the absolute value of its 32-bit hash modulo 128, which
\* is always an index in 0..127.
C23_Embedding ==
    out.ran =>
        IF out.text = <<>>
        THEN /\ Len(out.normalized) = EmbeddingLength
             /\ \A p \in 1..EmbeddingLength : out.normalized[p] = <<0, 1>>
        ELSE EachWordAddsItsShare

-----------------------------------------------------------------------------
(* Specification SpecIncr: notes created one call after the other through  *)
(* NotesView.handleAddNote, from an empty note store and an empty graph    *)

RECURSIVE AddItems(_, _)
\* the loop of handleAddNote over the notes made of the items, r being
\* [notes, g, threw]: addNote, then the four graph updates against the notes
\* stored so far; a raise leaves the loop
AddItems(items, r) ==
    IF items = <<>> \/ r.threw THEN r
    ELSE LET newNote == Head(items)
             updatedNotes == addNote(r.notes, newNote)
             g1 == addTopicNodes(newNote, newNote.entities[1].topics,
                       addEntityNodes(newNote, addNoteToGraph(newNote, r.g)))
             s == addSimilarityEdges(newNote, updatedNotes, g1)
         IN IF Len(s.g.edges) >= 0
            THEN AddItems(Tail(items),
                          [notes |-> updatedNotes, g |-> s.g, threw |-> s.threw])
            ELSE r

\* handleAddNote on stored notes and graph: the notes and the graph in
\* storage afterwards; the graph is saved once, after the loop, and not at all
\* when the loop raised
handleAddNote(items, notes, g) ==
    LET r == AddItems(items, [notes |-> notes, g |-> g, threw |-> FALSE])
    IN [notes |-> r.notes, g |-> IF r.threw THEN g ELSE r.g, threw |-> r.threw]

\* notes as handleAddNote makes them: entities with topics and an embedding
\* of the one length generateEmbedding gives; the labels of i1, i2 and i4
\* meet in one person node, the vectors of i1, i2, i3 and i6 are within 0.6
IncrNotes ==
    { MkNote(<<"i1">>, <<"a">>, "task", Now0,
             Entities(<<LMaria>>, <<>>, <<>>, <<TopicA>>), Some(<<1, 0>>)),
      MkNote(<<"i2">>, <<"b">>, "info", Now0,
             Entities(<<Lmaria, LmARIA>>, <<LMaria>>, <<LmUnA>>, <<TopicA, TopicB>>),
             Some(<<2, 1>>)),
      MkNote(<<"i3">>, <<"c">>, "idea", Now0,
             Entities(<<LmWsA>>, <<>>, <<LMaria>>, <<>>), Some(<<1, 0>>)),
      MkNote(<<"i4">>, <<"d">>, "info", Now0,
             Entities(<<LMaria>>, <<>>, <<>>, <<Lmaria>>), Some(<<0, 1>>)),
      MkNote(<<"i5">>, <<"e">>, "info", Now0,
             Entities(<<>>, <<>>, <<>>, <<>>), Some(<<0, 0>>)),
      MkNote(<<"i6">>, <<"f">>, "event", Now0,
             Entities(<<>>, <<LmSpA>>, <<>>, <<TopicB>>), Some(<<3, 4>>)) }

MaxIncrNotes == 3

\* the items of one call: one or two notes
MaxItems == 2

InitIncr ==
    /\ graph = EmptyGraph
    /\ coll = <<>>
    /\ ops = 0
    /\ inserted = {}
    /\ lastOp = Op("init", FALSE)
    /\ store = <<>>
    /\ clock = Now0
    /\ out = None
    /\ calls = <<>>
    /\ remote = <<>>

\* NotesView.handleAddNote with items that become notes with fresh ids
HandleAddNoteOp ==
    \E items \in NoteLists(IncrNotes, MaxItems) :
        LET r == handleAddNote(items, coll, graph)
        IN /\ items # <<>>
           /\ Len(coll) + Len(items) <= MaxIncrNotes
           /\ \A i \in 1..Len(items), j \in 1..Len(coll) : items[i].id # coll[j].id
           /\ coll' = r.notes
           /\ graph' = r.g
           /\ ops' = ops + 1
           /\ lastOp' = Op("handleAddNote", r.threw)
           /\ UNCHANGED <<inserted, store, clock, out, calls, remote>>

NextIncr == HandleAddNoteOp

SpecIncr == InitIncr /\ [][NextIncr]_vars

\* the node identifiers of g with their counts (0 for a node without count)
NodeCounts(g) ==
    {<<g.nodes[i].id,
       IF "count" \in DOMAIN g.nodes[i].metadata
       THEN g.nodes[i].metadata.count ELSE 0>> : i \in 1..Len(g.nodes)}

\* the edge identifiers of g with their strengths
EdgeIdStrengths(g) ==
    {<<g.edges[i].id, g.edges[i].strength>> : i \in 1..Len(g.edges)}

\* the graph buildGraphFromNotes gives for the stored notes and their topics
Rebuilt == buildGraphFromNotes(coll, TopicsMapOf(coll))

\* C24: adding notes one at a time through the NotesView path, from an empty
\* graph, yields the same node identifiers with the same counts and the same
\* edge identifiers with the same strengths as buildGraphFromNotes applied to
\* the final note collection with its topics map.
C24_IncrementalAgreesWithRebuild ==
    /\ ~Rebuilt.threw
    /\ NodeCounts(graph) = NodeCounts(Rebuilt.g)
    /\ EdgeIdStrengths(graph) = EdgeIdStrengths(Rebuilt.g)

\* three notes were added, a node is referenced three times or more and the
\* graph holds similarity and topic edges
C24_Witness ==
    /\ Len(coll) = 3
    /\ \E nc \in NodeCounts(graph) : nc[2] >= 3
    /\ \E i, j \in 1..Len(graph.edges) :
          graph.edges[i].type = "similarTo" /\ graph.edges[j].type = "topicOf"

-----------------------------------------------------------------------------
(* The identifiers of the stored suggestions (checked under SpecSugg)      *)

\* C26: all suggestions in the store carry pairwise distinct identifiers,
\* also when one automation run creates several suggestions at the same
\* instant, so that accepting or rejecting by id reaches the suggestion the
\* user selected.
C26_DistinctSuggestionIds ==
    \A i, j \in 1..Len(store) : i # j => store[i].id # store[j].id

-----------------------------------------------------------------------------
(* Specification SpecDup: the operations of SpecSugg on note stores that   *)
(* hold two unrelated groups of duplicates                                 *)

\* u1 and u2 are duplicates with equal contents, u3 and u4 duplicates with
\* different contents; the two groups are orthogonal
DupNotes ==
    { MkNote(<<"u1">>, Xyz, "info", Now0 - 2 * Day,
             Entities(<<>>, <<>>, <<>>, <<TopicA>>), Some(<<1, 0, 0, 0>>)),
      MkNote(<<"u2">>, Xyz, "info", Now0 - Day,
             Entities(<<>>, <<>>, <<>>, <<TopicA>>), Some(<<1, 0, 0, 0>>)),
      MkNote(<<"u3">>, Xyz, "info", Now0 - 2 * Day,
             Entities(<<>>, <<>>, <<>>, <<TopicB>>), Some(<<0, 1, 0, 0>>)),
      MkNote(<<"u4">>, <<"x", " ", "y", " ", "w">>, "info", Now0 - Day,
             Entities(<<>>, <<>>, <<>>, <<TopicB>>), Some(<<0, 1, 0, 0>>)) }

DupNoteById(id) == CHOOSE n \in DupNotes : n.id = <<id>>

\* the note stores the runs start from, newest note first
DupColls ==
    { <<DupNoteById("u4"), DupNoteById("u2"), DupNoteById("u3"), DupNoteById("u1")>>,
      <<DupNoteById("u2"), DupNoteById("u1"), DupNoteById("u4"), DupNoteById("u3")>>,
      <<DupNoteById("u4"), DupNoteById("u3"), DupNoteById("u1")>> }

InitDup ==
    /\ coll \in DupColls
    /\ graph = StartupGraph(coll)
    /\ ops = 0
    /\ inserted = {}
    /\ lastOp = SuggOp("init", FALSE, UnknownId)
    /\ store = <<>>
    /\ clock = Now0
    /\ out = NoRun
    /\ calls = <<>>
    /\ remote = <<>>

SpecDup == InitDup /\ [][NextSugg]_vars

\* the indices of the pending suggestions of type duplicate in st
PendingDuplicates(st) ==
    {i \in 1..Len(st) : st[i].type = "duplicate" /\ st[i].status = "pending"}

\* the indices of the suggestions of type duplicate in a list
DuplicatesIn(list) == {i \in 1..Len(list) : list[i].type = "duplicate"}

\* the suggestions of type duplicate that st holds, as a set
StoredDuplicates(st) == {st[i] : i \in DuplicatesIn(st)}

\* a run that returns suggestions of type duplicate stores the first one it
\* offers when none is pending, and none of them otherwise
StoresFirstDuplicateOnly ==
    (CycleStep /\ ~out'.threw /\ DuplicatesIn(out'.list) # {})
        => LET first == CHOOSE i \in DuplicatesIn(out'.list) :
                            \A j \in DuplicatesIn(out'.list) : i <= j
           IN StoredDuplicates(store') =
                  IF PendingDuplicates(store) = {}
                  THEN StoredDuplicates(store) \cup {out'.list[first]}
                  ELSE StoredDuplicates(store)

\* C27: at most one suggestion of type duplicate is pending at any time; when
\* a run detects several duplicate groups only the first one offered to
\* addAISuggestion is stored, and the others are discarded on every run until
\* that one is accepted or rejected.
C27_OnePendingDuplicate ==
    /\ [](Cardinality(PendingDuplicates(store)) <= 1)
    /\ [][StoresFirstDuplicateOnly]_vars

\* a second run has offered the suggestions of two unrelated duplicate groups
\* again and the store still holds the one pending suggestion of the first run
C27_Witness ==
    /\ lastOp.op = "cycle" /\ ~out.threw /\ ops >= 2
    /\ \E i, j \in DuplicatesIn(out.list) :
          \A a \in 1..Len(out.list[i].data.notes),
             b \in 1..Len(out.list[j].data.notes) :
              out.list[i].data.notes[a] # out.list[j].data.notes[b]
    /\ Cardinality(PendingDuplicates(store)) = 1
    /\ Cardinality(DuplicatesIn(store)) = 1

-----------------------------------------------------------------------------
(* Specification SpecViews: the note store and the persisted graph under   *)
(* the views that write them: NotesView.handleAddNote (an async handler    *)
(* that loads the graph, waits for the remote analysis and then stores the *)
(* notes and saves its graph), ChatView.handleSend, handleDeleteNote and   *)
(* the start of the application                                            *)

\* notes as NotesView.handleAddNote makes them (w1, w2 and w3; the vectors
\* of w1 and w2 are within 0.6) and as ChatView.handleSend makes them (c1:
\* id, content, category and createdAt only)
ViewNotes ==
    { MkNote(<<"w1">>, <<"a">>, "task", Now0,
             Entities(<<LMaria>>, <<>>, <<>>, <<TopicA>>), Some(<<1, 0>>)),
      MkNote(<<"w2">>, <<"b">>, "info", Now0,
             Entities(<<Lmaria>>, <<>>, <<>>, <<TopicA, TopicB>>), Some(<<2, 1>>)),
      MkNote(<<"w3">>, <<"c">>, "idea", Now0,
             Entities(<<>>, <<LMaria>>, <<>>, <<>>), Some(<<0, 1>>)),
      MkNote(<<"c1">>, <<"d">>, "info", Now0, None, None) }

\* the notes created over one behaviour
MaxViewNotes == 3

\* the calls of handleAddNote that wait for the remote analysis at one time
MaxPending == 2

\* first use: nothing is stored; inserted holds the identifiers generateId
\* has given out, of notes stored, deleted or waiting
InitViews ==
    /\ graph = EmptyGraph
    /\ coll = <<>>
    /\ ops = 0
    /\ inserted = {}
    /\ lastOp = Op("init", FALSE)
    /\ store = <<>>
    /\ clock = Now0
    /\ out = None
    /\ calls = <<>>
    /\ remote = <<>>

\* NotesView.tsx:46-47, up to the first await of the loop: the call holds
\* the graph it loaded and the items that become its notes
HandleAddNoteLoads ==
    \E items \in NoteLists({n \in ViewNotes : n.embedding # None}, MaxItems) :
        /\ items # <<>>
        /\ Len(calls) < MaxPending
        /\ Cardinality(inserted) + Len(items) <= MaxViewNotes
        /\ \A i \in 1..Len(items) : items[i].id \notin inserted
        /\ calls' = Append(calls, [items |-> items, graph |-> graph])
        /\ inserted' = inserted \cup {items[i].id : i \in 1..Len(items)}
        /\ lastOp' = Op("handleAddNote:load", FALSE)
        /\ UNCHANGED <<graph, coll, ops, store, clock, out, remote>>

\* NotesView.tsx:50-107 for a waiting call: each note is stored and added to
\* the graph the call loaded, which is saved after the loop
HandleAddNoteSaves ==
    \E k \in 1..Len(calls) :
        LET r == handleAddNote(calls[k].items, coll, calls[k].graph)
        IN /\ coll' = r.notes
           /\ graph' = IF r.threw THEN graph ELSE r.g
           /\ calls' = FilterIdx(calls, (1..Len(calls)) \ {k}, 1)
           /\ lastOp' = Op("handleAddNote:save", r.threw)
           /\ UNCHANGED <<ops, inserted, store, clock, out, remote>>

\* ChatView.tsx:83-109: the note is stored, the graph is not touched
HandleSendOp ==
    \E n \in {m \in ViewNotes : m.embedding = None} :
        /\ Cardinality(inserted) < MaxViewNotes
        /\ n.id \notin inserted
        /\ coll' = addNote(coll, n)
        /\ inserted' = inserted \cup {n.id}
        /\ lastOp' = Op("handleSend", FALSE)
        /\ UNCHANGED <<graph, ops, store, clock, out, calls, remote>>

\* NotesView.tsx:120-123: deleteNote on the store, the graph is not touched
HandleDeleteNoteOp ==
    \E i \in 1..Len(coll) :
        /\ coll' = deleteNote(coll, coll[i].id)
        /\ lastOp' = Op("handleDeleteNote", FALSE)
        /\ UNCHANGED <<graph, ops, inserted, store, clock, out, calls, remote>>

\* App.tsx:54-71 on a fresh page: no call of the page before is left, and
\* the graph is built from the stored notes when the stored graph has no node
AppStarts ==
    /\ lastOp.op # "start"
    /\ calls' = <<>>
    /\ graph' = IF Len(graph.nodes) = 0 /\ Len(coll) > 0
                THEN StartupGraph(coll) ELSE graph
    /\ lastOp' = Op("start", FALSE)
    /\ UNCHANGED <<coll, ops, inserted, store, clock, out, remote>>

NextViews ==
    \/ HandleAddNoteLoads
    \/ HandleAddNoteSaves
    \/ HandleSendOp
    \/ HandleDeleteNoteOp
    \/ AppStarts

SpecViews == InitViews /\ [][NextViews]_vars

\* the identifiers of the nodes of g
NodeIdsOf(g) == {g.nodes[i].id : i \in 1..Len(g.nodes)}

\* C28: in every persisted graph each edge's from and to identify nodes
\* present in the graph; the startup build and every later incremental note
\* addition keep this, also when addSimilarityEdges runs against stored notes
\* that were created without a graph update.
C28_EdgesHaveEndpoints ==
    \A i \in 1..Len(graph.edges) :
        /\ graph.edges[i].from \in NodeIdsOf(graph)
        /\ graph.edges[i].to \in NodeIdsOf(graph)

\* the node identifiers of the stored notes
StoredNoteNodeIds == {NoteNodeId(coll[i].id) : i \in 1..Len(coll)}

\* an edge end that names a note node
IsNoteEnd(x) == Len(x) >= 2 /\ SubSeq(x, 1, 2) = <<"note", "_">>

\* C29: after any sequence of note creations and deletions every note node
\* of the persisted graph, and every edge that starts or ends at a note
\* node, refers to a note that still exists in the note store.
C29_GraphRefersToStoredNotes ==
    /\ \A i \in 1..Len(graph.nodes) :
          graph.nodes[i].type = "note" => graph.nodes[i].id \in StoredNoteNodeIds
    /\ \A i \in 1..Len(graph.edges) :
          /\ IsNoteEnd(graph.edges[i].from) =>
                 graph.edges[i].from \in StoredNoteNodeIds
          /\ IsNoteEnd(graph.edges[i].to) =>
                 graph.edges[i].to \in StoredNoteNodeIds

-----------------------------------------------------------------------------
(* Specification SpecMigrateStore: migrateLocalNotesToSupabase next to the *)
(* note store of storage/localStorage.ts.  coll is the array saveNotes     *)
(* wrote under NOTES_KEY ("nexmind_notes"); store.notes is the entry under *)
(* the key "notes", the one the migration reads                            *)

InitMigrateStore ==
    /\ graph = EmptyGraph
    /\ coll \in NoteLists(LocalNotes, MaxLocalNotes)
    /\ ops = 0
    /\ inserted = {}
    /\ lastOp = Op("init", FALSE)
    /\ clock = Now0
    /\ out = NoRun
    /\ \E entry \in LocalEntries : store = [notes |-> entry, migrated |-> FALSE]
    /\ calls = [c \in MigrateCalls |->
                   [pc |-> "idle", notes |-> <<>>, next |-> 0,
                    successCount |-> 0, errorCount |-> 0]]
    /\ remote = [inserts |-> <<>>, rows |-> {}]

SpecMigrateStore == InitMigrateStore /\ [][NextMigrate]_vars

\* C30: once migrateLocalNotesToSupabase has set the migration-complete
\* flag, every note the local note store had persisted through saveNotes
\* before the call exists in the remote table.
C30_FlagMeansAllNotesRemote ==
    store.migrated => \A i \in 1..Len(coll) : coll[i].id \in remote.rows

====
